---- MODULE Spec2Model ----
(***************************************************************************)
(* Model of the ShopToPlus customer-service backend.                       *)
(*                                                                         *)
(* Part 1: the inbound gateway (WebhookController.handleWebhook) and the   *)
(* store-backed session lock of ConversationManager.  Every `await` of the *)
(* handler is one atomic step, so concurrent deliveries interleave exactly *)
(* where the event loop lets them.  All rows are keyed by phone_number and *)
(* every query filters on it, so identities do not interact: the model     *)
(* follows the deliveries of one identity.                                 *)
(*                                                                         *)
(* Part 2: the product resolver (ProductSearchService.searchProducts).     *)
(*                                                                         *)
(* Part 3: the orchestrator (AIService.processMessage), which calls the    *)
(* resolver of part 2.                                                     *)
(*                                                                         *)
(* Part 4: the rows of customers, conversation_sessions and messages that  *)
(* the handler's calls of ConversationManager read and write, one step per *)
(* awaited store call.                                                     *)
(*                                                                         *)
(* Part 5: KnowledgeBaseService.searchKnowledge and the usage counters of  *)
(* ai_training_data.                                                       *)
(*                                                                         *)
(* Part 6: the message list a turn sends to the language model, built from *)
(* the messages rows of the identity.                                      *)
(***************************************************************************)
EXTENDS Integers, Sequences, FiniteSets, TLC

\* ---------------------------------------------------------------- bounds
\* Handler slots: concurrent invocations of handleWebhook for the identity.
Handlers == {"h1", "h2"}
\* Handler slots of the specification that follows the lock row alone.
RaceHandlers == {"h1", "h2", "h3"}
\* The clock advances in steps of TickStep ms up to MaxTime ms.
TickStep == 20000
MaxTime == 45000

\* lockDuration's default value, in ms.
LockDuration == 30000

VARIABLES
    now,        \* Date.now()
    lock,       \* the session_protection row of the identity
    pc,         \* each handler's position in handleWebhook
    data,       \* checkSessionProtection: the row its select returned
    lockNow,    \* createSessionProtection: its local `now`
    reqHuman,   \* aiResponse.requiresHuman of the turn
    thrown,     \* an exception is propagating out of the inner try
    did,        \* what the invocation has done so far
    outcome,    \* how the invocation ended
    chk,        \* the value checkSessionProtection returned, and when
    lastCreate, \* `now` of the latest createSessionProtection, -1 if none
    releasedSince, \* releaseSessionProtection ran since lastCreate
    stale       \* handlers whose check began before lastCreate

gvars == <<now, lock, pc, data, lockNow, reqHuman, thrown, did, outcome,
           chk, lastCreate, releasedSince, stale>>

NoRow == [exists |-> FALSE, is_locked |-> FALSE, locked_until |-> 0]
NoData == [found |-> FALSE, locked_until |-> 0]
NoChk == [done |-> FALSE, res |-> FALSE, at |-> 0]

\* The steps of handleWebhook between createSessionProtection and
\* releaseSessionProtection, in program order.
SectionPcs ==
    {"markAsRead", "getCustomer", "saveIncoming", "buildContext",
     "processMessage", "saveOutgoing", "sendText", "escalate",
     "sendEscalation", "updateState", "logProcessed", "finally"}

InitWith(H) ==
    /\ now = 0
    /\ lock = NoRow
    /\ pc = [h \in H |-> "idle"]
    /\ data = [h \in H |-> NoData]
    /\ lockNow = [h \in H |-> 0]
    /\ reqHuman = [h \in H |-> FALSE]
    /\ thrown = [h \in H |-> FALSE]
    /\ did = [h \in H |-> {}]
    /\ outcome = [h \in H |-> "none"]
    /\ chk = [h \in H |-> NoChk]
    /\ lastCreate = -1
    /\ releasedSince = FALSE
    /\ stale = {}

\* ------------------------------------------------------------ the clock
Tick ==
    /\ now + TickStep <= MaxTime
    /\ now' = now + TickStep
    /\ UNCHANGED <<lock, pc, data, lockNow, reqHuman, thrown, did, outcome,
                   chk, lastCreate, releasedSince, stale>>

\* ------------------------------------------------ session lock (store)
\* select * from session_protection where phone_number = .. and
\* is_locked = true, .single(): the row, or no data.
SelectLocked(row) ==
    IF row.exists /\ row.is_locked
    THEN [found |-> TRUE, locked_until |-> row.locked_until]
    ELSE NoData

\* checkSessionProtection's test of the row it read.
LockExpired(d, t) == d.locked_until < t

ClearLockNoop(row) == row

\* update session_protection set is_locked = false where phone_number = ..
ClearLock(row) == IF row.exists THEN [row EXCEPT !.is_locked = FALSE] ELSE row

\* upsert of createSessionProtection.
UpsertLock(t) ==
    [exists |-> TRUE, is_locked |-> TRUE, locked_until |-> t + LockDuration]

AfterCheckRelease(isProtected) == IF isProtected THEN "finally" ELSE "create"

\* handleWebhook after checkSessionProtection returned.
AfterCheck(isProtected) == IF isProtected THEN "done" ELSE "create"

AfterThrowNoFinally(step) == "catch"

\* Where control goes when a step inside the inner try throws.
AfterThrow(step) == "finally"

\* A new delivery arrives at a free handler slot; the 200 is sent, the
\* payload parsed and the event logged.
Receive(h) ==
    /\ pc[h] \in {"idle", "done"}
    /\ \E hasMessage \in BOOLEAN :
          IF hasMessage
          THEN /\ pc' = [pc EXCEPT ![h] = "check"]
               /\ outcome' = [outcome EXCEPT ![h] = "none"]
          ELSE /\ pc' = [pc EXCEPT ![h] = "done"]
               /\ outcome' = [outcome EXCEPT ![h] = "nomsg"]
    /\ did' = [did EXCEPT ![h] = {}]
    /\ chk' = [chk EXCEPT ![h] = NoChk]
    /\ data' = [data EXCEPT ![h] = NoData]
    /\ thrown' = [thrown EXCEPT ![h] = FALSE]
    /\ reqHuman' = [reqHuman EXCEPT ![h] = FALSE]
    /\ lockNow' = [lockNow EXCEPT ![h] = 0]
    /\ stale' = stale \ {h}
    /\ UNCHANGED <<now, lock, lastCreate, releasedSince>>

\* checkSessionProtection: the select.
CheckSelect(h) ==
    /\ pc[h] = "check"
    /\ data' = [data EXCEPT ![h] = SelectLocked(lock)]
    /\ pc' = [pc EXCEPT ![h] = "checkEval"]
    /\ stale' = stale \ {h}
    /\ UNCHANGED <<now, lock, lockNow, reqHuman, thrown, did, outcome, chk,
                   lastCreate, releasedSince>>

\* checkSessionProtection after the select: no row -> false; an expired
\* row -> clear it, then false; else true.  On false handleWebhook calls
\* createSessionProtection at once, which reads its `now`.
CheckEval(h) ==
    /\ pc[h] = "checkEval"
    /\ IF ~data[h].found
       THEN /\ chk' = [chk EXCEPT ![h] = [done |-> TRUE, res |-> FALSE, at |-> now]]
            /\ pc' = [pc EXCEPT ![h] = AfterCheck(FALSE)]
            /\ lockNow' = [lockNow EXCEPT ![h] = now]
            /\ outcome' = outcome
       ELSE IF LockExpired(data[h], now)
       THEN /\ chk' = [chk EXCEPT ![h] = [done |-> FALSE, res |-> FALSE, at |-> now]]
            /\ pc' = [pc EXCEPT ![h] = "clear"]
            /\ UNCHANGED <<lockNow, outcome>>
       ELSE /\ chk' = [chk EXCEPT ![h] = [done |-> TRUE, res |-> TRUE, at |-> now]]
            /\ pc' = [pc EXCEPT ![h] = AfterCheck(TRUE)]
            /\ outcome' = [outcome EXCEPT ![h] =
                              IF AfterCheck(TRUE) = "done" THEN "dropped" ELSE @]
            /\ lockNow' = lockNow
    /\ UNCHANGED <<now, lock, data, reqHuman, thrown, did, lastCreate,
                   releasedSince, stale>>

\* checkSessionProtection: the lazy clear of an expired lock.
CheckClear(h) ==
    /\ pc[h] = "clear"
    /\ lock' = ClearLock(lock)
    /\ chk' = [chk EXCEPT ![h].done = TRUE]
    /\ pc' = [pc EXCEPT ![h] = AfterCheck(FALSE)]
    /\ lockNow' = [lockNow EXCEPT ![h] = now]
    /\ UNCHANGED <<now, data, reqHuman, thrown, did, outcome, lastCreate,
                   releasedSince, stale>>

\* createSessionProtection: awaits the upsert and does not look at its
\* result, so the handler goes on whether the row was written (ok) or the
\* store returned an error and the row is as it was.
Create(h) ==
    /\ pc[h] = "create"
    /\ \E ok \in BOOLEAN :
          IF ok
          THEN /\ lock' = UpsertLock(lockNow[h])
               /\ lastCreate' = lockNow[h]
               /\ releasedSince' = FALSE
               /\ stale' = {g \in DOMAIN pc :
                               pc[g] \in {"checkEval", "clear"} \/ chk[g].done} \ {h}
          ELSE UNCHANGED <<lock, lastCreate, releasedSince, stale>>
    /\ pc' = [pc EXCEPT ![h] = "markAsRead"]
    /\ did' = [did EXCEPT ![h] = @ \cup {"create"}]
    /\ chk' = [chk EXCEPT ![h] = NoChk]
    /\ UNCHANGED <<now, data, lockNow, reqHuman, thrown, outcome>>

\* One awaited step of the inner try that cannot throw.
Advance(h, from, to, tags) ==
    /\ pc[h] = from
    /\ pc' = [pc EXCEPT ![h] = to]
    /\ did' = [did EXCEPT ![h] = @ \cup tags]

\* One awaited step of the inner try that throws when its store write
\* fails.
AdvanceOrThrow(h, from, to, tags) ==
    /\ pc[h] = from
    /\ \E ok \in BOOLEAN :
          IF ok
          THEN /\ pc' = [pc EXCEPT ![h] = to]
               /\ did' = [did EXCEPT ![h] = @ \cup tags]
               /\ thrown' = thrown
          ELSE /\ pc' = [pc EXCEPT ![h] = AfterThrow(from)]
               /\ did' = did
               /\ thrown' = [thrown EXCEPT ![h] = TRUE]

\* whatsappService.markAsRead: catches its own failure, returns a boolean.
MarkAsRead(h) ==
    /\ Advance(h, "markAsRead", "getCustomer", {})
    /\ UNCHANGED <<now, lock, data, lockNow, reqHuman, thrown, outcome, chk,
                   lastCreate, releasedSince, stale>>

\* getOrCreateCustomer: throws when the insert fails.
GetCustomer(h) ==
    /\ AdvanceOrThrow(h, "getCustomer", "saveIncoming", {"customer"})
    /\ UNCHANGED <<now, lock, data, lockNow, reqHuman, outcome, chk,
                   lastCreate, releasedSince, stale>>

\* saveIncomingMessage: throws when the insert fails.
SaveIncoming(h) ==
    /\ AdvanceOrThrow(h, "saveIncoming", "buildContext", {"message", "session"})
    /\ UNCHANGED <<now, lock, data, lockNow, reqHuman, outcome, chk,
                   lastCreate, releasedSince, stale>>

\* buildContext: getOrCreateSession throws when its insert fails.
BuildContext(h) ==
    /\ AdvanceOrThrow(h, "buildContext", "processMessage", {"session"})
    /\ UNCHANGED <<now, lock, data, lockNow, reqHuman, outcome, chk,
                   lastCreate, releasedSince, stale>>

\* aiService.processMessage: always returns a response object.
ProcessMessage(h) ==
    /\ Advance(h, "processMessage", "saveOutgoing", {"ai"})
    /\ \E r \in BOOLEAN : reqHuman' = [reqHuman EXCEPT ![h] = r]
    /\ UNCHANGED <<now, lock, data, lockNow, thrown, outcome, chk,
                   lastCreate, releasedSince, stale>>

\* saveOutgoingMessage: throws when the insert fails.
SaveOutgoing(h) ==
    /\ AdvanceOrThrow(h, "saveOutgoing", "sendText", {"message", "session"})
    /\ UNCHANGED <<now, lock, data, lockNow, reqHuman, outcome, chk,
                   lastCreate, releasedSince, stale>>

\* whatsappService.sendTextMessage of the reply, then the branch on
\* aiResponse.requiresHuman.
SendText(h) ==
    /\ Advance(h, "sendText",
               IF reqHuman[h] THEN "escalate" ELSE "updateState", {"send"})
    /\ UNCHANGED <<now, lock, data, lockNow, reqHuman, thrown, outcome, chk,
                   lastCreate, releasedSince, stale>>

\* escalateToHuman: two updates, errors ignored.
Escalate(h) ==
    /\ Advance(h, "escalate", "sendEscalation", {"customer", "session"})
    /\ UNCHANGED <<now, lock, data, lockNow, reqHuman, thrown, outcome, chk,
                   lastCreate, releasedSince, stale>>

\* sendTextMessage of the hand-off notice.
SendEscalation(h) ==
    /\ Advance(h, "sendEscalation", "updateState", {"send"})
    /\ UNCHANGED <<now, lock, data, lockNow, reqHuman, thrown, outcome, chk,
                   lastCreate, releasedSince, stale>>

\* updateCustomerState: error logged, not thrown.
UpdateState(h) ==
    /\ Advance(h, "updateState", "logProcessed", {"customer"})
    /\ UNCHANGED <<now, lock, data, lockNow, reqHuman, thrown, outcome, chk,
                   lastCreate, releasedSince, stale>>

\* logWebhookEvent('message_processed'): catches its own failure.
LogProcessed(h) ==
    /\ Advance(h, "logProcessed", "finally", {})
    /\ UNCHANGED <<now, lock, data, lockNow, reqHuman, thrown, outcome, chk,
                   lastCreate, releasedSince, stale>>

\* The finally block: releaseSessionProtection, then the exception, if
\* any, goes on to the outer catch.
Release(h) ==
    /\ pc[h] = "finally"
    /\ lock' = ClearLock(lock)
    /\ did' = [did EXCEPT ![h] = @ \cup {"release"}]
    /\ releasedSince' = TRUE
    /\ IF thrown[h]
       THEN /\ pc' = [pc EXCEPT ![h] = "catch"]
            /\ outcome' = outcome
       ELSE /\ pc' = [pc EXCEPT ![h] = "done"]
            /\ outcome' = [outcome EXCEPT ![h] = "processed"]
    /\ lockNow' = [lockNow EXCEPT ![h] = 0]
    /\ UNCHANGED <<now, data, reqHuman, thrown, chk, lastCreate, stale>>

\* The outer catch: logWebhookEvent('error').
Catch(h) ==
    /\ pc[h] = "catch"
    /\ pc' = [pc EXCEPT ![h] = "done"]
    /\ outcome' = [outcome EXCEPT ![h] = "failed"]
    /\ UNCHANGED <<now, lock, data, lockNow, reqHuman, thrown, did, chk,
                   lastCreate, releasedSince, stale>>

\* A step of handleWebhook once the delivery has arrived.
HandlerStep(h) ==
    \/ CheckSelect(h) \/ CheckEval(h) \/ CheckClear(h) \/ Create(h)
    \/ MarkAsRead(h) \/ GetCustomer(h) \/ SaveIncoming(h) \/ BuildContext(h)
    \/ ProcessMessage(h) \/ SaveOutgoing(h) \/ SendText(h) \/ Escalate(h)
    \/ SendEscalation(h) \/ UpdateState(h) \/ LogProcessed(h)
    \/ Release(h) \/ Catch(h)

\* Lines 62-147 of handleWebhook as one step: none of them reads or
\* writes session_protection, so for the lock row they are one stutter
\* that either completes or throws.
Process(h) ==
    /\ pc[h] = "markAsRead"
    /\ pc' = [pc EXCEPT ![h] = "finally"]
    /\ \E t \in BOOLEAN : thrown' = [thrown EXCEPT ![h] = t]
    /\ UNCHANGED <<now, lock, data, lockNow, reqHuman, did, outcome, chk,
                   lastCreate, releasedSince, stale>>

\* =====================================================================
\* Part 2: ProductSearchService.searchProducts
\* =====================================================================
\* Text is a sequence of one-character strings.  Queries are drawn from
\* QueryChars, up to MaxQueryLen characters; limit from 1..MaxLimit.
MaxQueryLen == 2
MaxLimit == 2
QueryChars == {"a", "b", "c", "A", "_"}

\* A column that is NULL.
Null == <<"NULL">>

\* The products table rows the catalog is drawn from.
ProductRows ==
    [p1 |-> [product_code |-> <<"a">>,
             product_name_chinese |-> <<"c", "a">>,
             product_name_english |-> <<"A">>,
             search_text |-> <<"a", " ", "c", "a">>],
     p2 |-> [product_code |-> <<"a", "b">>,
             product_name_chinese |-> <<"c", "b">>,
             product_name_english |-> Null,
             search_text |-> <<"a", "b", " ", "c", "b", " ", "c", "c", "b">>],
     p3 |-> [product_code |-> <<"b">>,
             product_name_chinese |-> <<"b">>,
             product_name_english |-> Null,
             search_text |-> <<"b", " ", "c", "c">>]]

ProductIds == DOMAIN ProductRows

\* The product_aliases table rows the alias table is drawn from.
AliasRows ==
    [a1 |-> [alias_name |-> <<"b", "b">>, product_code |-> <<"a">>, is_active |-> TRUE],
     a2 |-> [alias_name |-> <<"b", "b", "c">>, product_code |-> <<"a">>, is_active |-> TRUE],
     a3 |-> [alias_name |-> <<"B", "b">>, product_code |-> <<"a", "b">>, is_active |-> FALSE]]

AliasIds == DOMAIN AliasRows

\* The alias tables a call is tried on.
AliasTables == {{}, {"a1"}, {"a3"}, {"a1", "a2"}, {"a1", "a2", "a3"}}

\* Confidence values, in hundredths.
ConfExact == 95
ConfAlias == 85
ConfSemantic == 80
ConfFullText == 60
ConfLike == 50
ConfSampleReturned == 30
ConfSampleStage == 20

Stages == <<"exact", "alias", "semantic", "fuzzy", "sample">>

VARIABLES
    catalog,    \* ids of the rows of the products table
    aliasTable, \* ids of the rows of the product_aliases table
    usage,      \* usage_count of each alias row
    usage0,     \* usage_count of each alias row when the call began
    sQuery,     \* searchProducts: query
    sLimit,     \* searchProducts: limit
    sPc,        \* searchProducts: the stage about to run, or "done"
    sLog,       \* the stages invoked so far, each with what it returned
    sRet        \* what searchProducts returned, or that it threw

svars == <<catalog, aliasTable, usage, usage0, sQuery, sLimit, sPc, sLog, sRet>>

\* -------------------------------------------------------------- text
Lower(c) == IF c = "A" THEN "a" ELSE IF c = "B" THEN "b" ELSE IF c = "C" THEN "c" ELSE c

\* ILIKE of one pattern character against one character: _ matches any.
CharMatch(p, c) == p = "_" \/ Lower(p) = Lower(c)

\* column ILIKE %pat%: NULL never matches.
ILikeContains(text, pat) ==
    /\ text # Null
    /\ \E i \in 0..(Len(text) - Len(pat)) :
          \A k \in 1..Len(pat) : CharMatch(pat[k], text[i + k])

RECURSIVE SplitAcc(_, _, _)
SplitAcc(s, cur, acc) ==
    IF s = <<>> THEN (IF cur = <<>> THEN acc ELSE acc \cup {cur})
    ELSE IF Head(s) \in {" ", "_"}
         THEN SplitAcc(Tail(s), <<>>, IF cur = <<>> THEN acc ELSE acc \cup {cur})
         ELSE SplitAcc(Tail(s), Append(cur, Lower(Head(s))), acc)

\* The lexemes of a text under the 'simple' text-search configuration.
Lexemes(s) == SplitAcc(s, <<>>, {})

\* search_text @@ websearch_to_tsquery('simple', query).
TextSearchMatch(text, query) ==
    /\ Lexemes(query) # {}
    /\ Lexemes(query) \subseteq Lexemes(text)

Min(a, b) == IF a < b THEN a ELSE b

LimitChoicesUnlimited(S, n) == {S}

\* .limit(n) without an order: any n of the matching rows.
LimitChoices(S, n) == {T \in SUBSET S : Cardinality(T) = Min(n, Cardinality(S))}

\* ------------------------------------------------------ store queries
ExactMatchesNamesOnly(cat, q) ==
    {p \in cat : \/ ILikeContains(ProductRows[p].product_name_chinese, q)
                 \/ ILikeContains(ProductRows[p].product_name_english, q)}

\* product_code, product_name_chinese or product_name_english ILIKE %q%.
ExactMatches(cat, q) ==
    {p \in cat : \/ ILikeContains(ProductRows[p].product_code, q)
                 \/ ILikeContains(ProductRows[p].product_name_chinese, q)
                 \/ ILikeContains(ProductRows[p].product_name_english, q)}

AliasMatches(tbl, q) ==
    {a \in tbl : AliasRows[a].is_active /\ ILikeContains(AliasRows[a].alias_name, q)}

ProductsByCodes(cat, codes) == {p \in cat : ProductRows[p].product_code \in codes}

FullTextMatches(cat, q) == {p \in cat : TextSearchMatch(ProductRows[p].search_text, q)}

LikeMatches(cat, q) == {p \in cat : ILikeContains(ProductRows[p].search_text, q)}

\* update product_aliases set usage_count = <value> where product_code =
\* code, the value being supabase.rpc('increment', ..): a request builder
\* that is never awaited, not a number.  The store rejects the write and
\* the error is not looked at: no row changes.
UpdateUsage(u, tbl, code) == u

\* ------------------------------------------------------------- stages
Result(ps, conf, method) == [products |-> ps, confidence |-> conf, searchMethod |-> method]

Empty(method) == Result({}, 0, method)

\* Outcome of a store or client call: it answers, returns an error, or throws.
Outcomes == {"ok", "error", "throw"}

\* exactSearch: error and exception both give the empty result.
ExactSearch(o, rows) ==
    IF o = "ok"
    THEN Result(rows, IF rows # {} THEN ConfExact ELSE 0, "exact")
    ELSE Empty("exact")

\* semanticSearch: embedding and rpc failures both give the empty result.
SemanticSearch(oEmbed, oRpc, rows) ==
    IF oEmbed = "ok" /\ oRpc = "ok"
    THEN Result(rows, IF rows # {} THEN ConfSemantic ELSE 0, "semantic")
    ELSE Empty("semantic")

\* fuzzySearch: full-text rows if any; else the LIKE query; an exception
\* of either gives the empty result.
FuzzySearch(oText, textRows, oLike, likeRows) ==
    IF oText = "throw" THEN Empty("fuzzy")
    ELSE IF oText = "ok" /\ textRows # {} THEN Result(textRows, ConfFullText, "fuzzy")
    ELSE IF oLike = "ok"
         THEN Result(likeRows, IF likeRows # {} THEN ConfLike ELSE 0, "fuzzy")
         ELSE Empty("fuzzy")

\* getSampleProducts.
GetSampleProducts(o, rows) ==
    IF o = "ok" THEN Result(rows, ConfSampleStage, "sample") ELSE Empty("sample")

SampleStageHalf(o, rows) ==
    IF GetSampleProducts(o, rows).products # {}
    THEN [GetSampleProducts(o, rows) EXCEPT !.confidence = 50]
    ELSE GetSampleProducts(o, rows)

\* The last resort of searchProducts: the sample rows with confidence 0.3.
SampleStage(o, rows) ==
    IF GetSampleProducts(o, rows).products # {}
    THEN [GetSampleProducts(o, rows) EXCEPT !.confidence = ConfSampleReturned]
    ELSE GetSampleProducts(o, rows)

NextStageSkipAlias(stage) ==
    CASE stage = "exact" -> "semantic"
      [] stage = "alias" -> "semantic"
      [] stage = "semantic" -> "fuzzy"
      [] stage = "fuzzy" -> "sample"
      [] stage = "sample" -> "done"

\* The order of the stages in searchProducts; after the last it returns.
NextStage(stage) ==
    CASE stage = "exact" -> "alias"
      [] stage = "alias" -> "semantic"
      [] stage = "semantic" -> "fuzzy"
      [] stage = "fuzzy" -> "sample"
      [] stage = "sample" -> "done"

NoneResult == Result({}, 0, "none")

NotReturned == [kind |-> "pending", value |-> NoneResult]

AfterStageAbortOnFailure(stage, failed, res) ==
    IF res.products # {} \/ failed THEN "done" ELSE NextStage(stage)

\* Where searchProducts goes after a stage returned res: it returns when
\* the stage found products, whether or not one of its calls failed;
\* otherwise it goes on to the next stage.
AfterStage(stage, failed, res) ==
    IF res.products # {} THEN "done" ELSE NextStage(stage)

\* The effect on searchProducts of a stage that returned res; failed
\* says that a store or client call of the stage did not answer.
StageReturned(stage, failed, res) ==
    /\ sLog' = Append(sLog, [stage |-> stage, failed |-> failed, result |-> res])
    /\ sPc' = AfterStage(stage, failed, res)
    /\ sRet' = IF res.products # {} THEN [kind |-> "value", value |-> res]
               ELSE IF AfterStage(stage, failed, res) = "done"
                    THEN [kind |-> "value", value |-> NoneResult]
                    ELSE sRet

\* The effect on searchProducts of a stage whose exception reaches it
\* outside any try block.
StageThrew(stage) ==
    /\ sLog' = Append(sLog, [stage |-> stage, failed |-> TRUE, result |-> Empty(stage)])
    /\ sPc' = "done"
    /\ sRet' = [kind |-> "throw", value |-> NoneResult]

SearchExact ==
    /\ sPc = "exact"
    /\ \E o \in Outcomes : \E rows \in LimitChoices(ExactMatches(catalog, sQuery), sLimit) :
          StageReturned("exact", o # "ok", ExactSearch(o, rows))
    /\ UNCHANGED <<catalog, aliasTable, usage, usage0, sQuery, sLimit>>

\* The usage_count updates of aliasSearch, one per matched alias.
RECURSIVE UpdateUsages(_, _, _)
UpdateUsages(u, tbl, matched) ==
    IF matched = {} THEN u
    ELSE LET a == CHOOSE x \in matched : TRUE
         IN UpdateUsages(UpdateUsage(u, tbl, AliasRows[a].product_code), tbl, matched \ {a})

\* aliasSearch: the alias query, the product query, the usage updates.
\* No try block: an exception of any of the three leaves searchProducts.
SearchAlias ==
    /\ sPc = "alias"
    /\ \E oAlias \in Outcomes :
          LET matched == AliasMatches(aliasTable, sQuery)
              codes == {AliasRows[a].product_code : a \in matched}
          IN  IF oAlias = "throw"
              THEN StageThrew("alias") /\ usage' = usage
              ELSE IF oAlias = "error" \/ matched = {}
              THEN StageReturned("alias", oAlias # "ok", Empty("alias")) /\ usage' = usage
              ELSE \E oProd \in Outcomes :
                      IF oProd = "throw"
                      THEN StageThrew("alias") /\ usage' = usage
                      ELSE IF oProd = "error"
                      THEN StageReturned("alias", TRUE, Empty("alias")) /\ usage' = usage
                      ELSE \E rows \in LimitChoices(ProductsByCodes(catalog, codes), sLimit) :
                           \E updated \in SUBSET matched :
                              /\ usage' = UpdateUsages(usage, aliasTable, updated)
                              /\ IF updated = matched
                                 THEN StageReturned("alias", FALSE, Result(rows, ConfAlias, "alias"))
                                 ELSE StageThrew("alias")
    /\ UNCHANGED <<catalog, aliasTable, usage0, sQuery, sLimit>>

\* semanticSearch inside the try block of searchProducts.  The rows of
\* match_products are the store's choice: at most match_count of them.
SearchSemantic ==
    /\ sPc = "semantic"
    /\ \E oEmbed \in Outcomes : \E oRpc \in Outcomes :
       \E rows \in {T \in SUBSET catalog : Cardinality(T) <= sLimit} :
          /\ (oEmbed # "ok" => oRpc = "ok" /\ rows = {})
          /\ (oRpc # "ok" => rows = {})
          /\ StageReturned("semantic", oEmbed # "ok" \/ oRpc # "ok",
                           SemanticSearch(oEmbed, oRpc, rows))
    /\ UNCHANGED <<catalog, aliasTable, usage, usage0, sQuery, sLimit>>

SearchFuzzy ==
    /\ sPc = "fuzzy"
    /\ \E oText \in Outcomes : \E oLike \in Outcomes :
       \E textRows \in LimitChoices(FullTextMatches(catalog, sQuery), sLimit) :
       \E likeRows \in LimitChoices(LikeMatches(catalog, sQuery), sLimit) :
          StageReturned("fuzzy", oText # "ok" \/ oLike # "ok",
                        FuzzySearch(oText, textRows, oLike, likeRows))
    /\ UNCHANGED <<catalog, aliasTable, usage, usage0, sQuery, sLimit>>

SearchSample ==
    /\ sPc = "sample"
    /\ \E o \in Outcomes : \E rows \in LimitChoices(catalog, sLimit) :
          StageReturned("sample", o # "ok", SampleStage(o, rows))
    /\ UNCHANGED <<catalog, aliasTable, usage, usage0, sQuery, sLimit>>

\* Texts of at most n characters.
RECURSIVE TextsUpTo(_)
TextsUpTo(n) ==
    IF n = 0 THEN {<<>>}
    ELSE TextsUpTo(n - 1) \cup
         {Append(t, c) : t \in {u \in TextsUpTo(n - 1) : Len(u) = n - 1}, c \in QueryChars}

SearchIdle ==
    /\ catalog = {}
    /\ aliasTable = {}
    /\ usage = [a \in AliasIds |-> 0]
    /\ usage0 = usage
    /\ sQuery = <<>>
    /\ sLimit = 1
    /\ sPc = "done"
    /\ sLog = <<>>
    /\ sRet = NotReturned

\* ======================================================================
\* Part 3: the orchestrator (AIService.processMessage).
\*
\* A text is a sequence of words; a word is an atom of the text: a keyword
\* of the service, a marker, a space or a character of a product code.
\* The Chinese keywords are written by name: "zh:kefu" is the word the
\* source writes as U+5BA2 U+670D, and so on.
\* ======================================================================

\* Messages hold at most MaxWords words between the marker and the tail.
MaxWords == 2

\* searchProducts' default limit.
DefaultLimit == 10

\* The language hint the frontend may put in front of a message.
Markers == {<<>>, <<"[EN]", " ">>, <<"[ZH]", " ">>}

\* The words a message body is made of.
BodyWords == {"do you have", "Order", "human", "zh:kefu", "zh:tousu", "english"}

\* What may follow the body: nothing, or the code of product p1.
Tails == {<<>>, <<" ", "a">>}

\* The model's replies: a plain one, two that hedge, and no content.
Replies == {<<"sure">>, <<"zh:buqueding">>, <<"zh:lianluo kefu">>, <<>>}

\* defaultResponse, used when the completion has no content.
DefaultResponse(language) ==
    IF language = "en" THEN <<"Sorry, I am unable to respond">>
    ELSE <<"zh:baoqian", "zh:wufa huida">>

\* The error response's text.
ErrorMessage(language) ==
    IF language = "en" THEN <<"Sorry, a system error occurred">>
    ELSE <<"zh:xitong cuowu">>

\* The notices processMessage appends to the text sent to the model.
NoProductsMsg(language) ==
    IF language = "en" THEN <<"[IMPORTANT: NO RESULTS]">> ELSE <<"zh:[meiyou jieguo]">>
SearchFailedMsg(language) ==
    IF language = "en" THEN <<"[CRITICAL: UNAVAILABLE]">> ELSE <<"zh:[wufa shiyong]">>
ProductListMsg(language) ==
    IF language = "en" THEN <<"Relevant products found:">> ELSE <<"zh:[xiangguan chanpin]">>

\* String.prototype.toLowerCase, word by word.
LowerWord(w) ==
    IF w = "Order" THEN "order"
    ELSE IF w = "[EN]" THEN "[en]"
    ELSE IF w = "[ZH]" THEN "[zh]"
    ELSE Lower(w)

ToLowerCase(text) == [i \in DOMAIN text |-> LowerWord(text[i])]

\* The keywords that occur inside a word other than the word itself.
Within ==
    {<<"zh:lianluo kefu", "zh:kefu">>, <<"order status", "order">>,
     <<"track order", "order">>, <<"my order", "order">>,
     <<"want to order", "order">>, <<"shipping", "ship">>,
     <<"switch to english", "english">>}

\* String.prototype.includes for a keyword.
Includes(text, kw) ==
    \E i \in DOMAIN text : text[i] = kw \/ <<text[i], kw>> \in Within

IncludesAny(text, kws) == \E kw \in kws : Includes(text, kw)

\* Letters of [a-zA-Z] and characters of U+4E00..U+9FFF in a word.
AsciiLetters(w) ==
    CASE w = "do you have" -> 9
      [] w \in {"Order", "human"} -> 5
      [] w = "english" -> 7
      [] w \in {"[EN]", "[ZH]"} -> 2
      [] w \in {"a", "b", "c", "A", "B", "C"} -> 1
      [] OTHER -> 0

ChineseChars(w) == IF w \in {"zh:kefu", "zh:tousu"} THEN 2 ELSE 0

RECURSIVE CountOver(_, _, _)
CountOver(text, i, which) ==
    IF i > Len(text) THEN 0
    ELSE (IF which = "ascii" THEN AsciiLetters(text[i]) ELSE ChineseChars(text[i]))
         + CountOver(text, i + 1, which)

\* The customer's stored language preference, when there is none.
NoPreference == "undefined"

DetectLanguageStoredFirst(message, stored) ==
    LET lower == ToLowerCase(message)
        ascii == CountOver(message, 1, "ascii")
        chinese == CountOver(message, 1, "chinese")
    IN  IF Len(message) >= 1 /\ message[1] = "[EN]" THEN "en"
        ELSE IF Len(message) >= 1 /\ message[1] = "[ZH]" THEN "zh"
        ELSE IF stored # NoPreference THEN stored
        ELSE IF Includes(lower, "english") \/ lower = <<"en">> THEN "en"
        ELSE IF IncludesAny(lower, {"zh:zhongwen", "zh:fanti"}) \/ lower = <<"zh">> THEN "zh"
        ELSE IF ascii > 0 /\ chinese > 0
             THEN (IF ascii > chinese * 2 THEN "en" ELSE "zh")
        ELSE IF ascii > 5 THEN "en"
        ELSE "zh"

\* detectLanguagePreference.
DetectLanguagePreference(message, stored) ==
    LET lower == ToLowerCase(message)
        ascii == CountOver(message, 1, "ascii")
        chinese == CountOver(message, 1, "chinese")
    IN  IF Len(message) >= 1 /\ message[1] = "[EN]" THEN "en"
        ELSE IF Len(message) >= 1 /\ message[1] = "[ZH]" THEN "zh"
        ELSE IF Includes(lower, "english") \/ lower = <<"en">> THEN "en"
        ELSE IF IncludesAny(lower, {"zh:zhongwen", "zh:fanti"}) \/ lower = <<"zh">> THEN "zh"
        ELSE IF stored # NoPreference THEN stored
        ELSE IF ascii > 0 /\ chinese > 0
             THEN (IF ascii > chinese * 2 THEN "en" ELSE "zh")
        ELSE IF ascii > 5 THEN "en"
        ELSE "zh"

\* The removal of the "[EN] " or "[ZH] " prefix.
CleanMessage(message) ==
    IF Len(message) >= 2 /\ message[1] \in {"[EN]", "[ZH]"} /\ message[2] = " "
    THEN SubSeq(message, 3, Len(message))
    ELSE message

\* detectIntent's keyword lists.
ProductKeywords ==
    {"zh:chanpin", "zh:shangpin", "zh:jiage", "zh:jiaqian", "zh:duoshao qian",
     "zh:you meiyou", "zh:you wu", "product", "item", "price", "how much",
     "cost", "do you have"}
OrderKeywords ==
    {"zh:dinggou", "zh:xiadan", "zh:mai", "zh:yao", "order", "purchase", "buy",
     "want to order", "<quantity>"}
DeliveryKeywords ==
    {"zh:songhuo", "zh:yunsong", "zh:peisong", "zh:jishi dao", "zh:heshi dao",
     "delivery", "shipping", "ship", "when will", "arrive"}
OrderStatusKeywords ==
    {"zh:dingdan", "zh:zhuangtai", "zh:jindu", "order status", "track order",
     "my order"}
ComplaintKeywords ==
    {"zh:tousu", "zh:wenti", "zh:cuowu", "zh:buman", "complaint", "problem",
     "issue", "wrong", "error"}
HumanSupportKeywords ==
    {"zh:kefu", "zh:zhenren", "zh:rengong", "zh:zhiyuan", "customer service",
     "speak to someone", "human", "agent", "representative"}

DetectIntentOrderFirst(message) ==
    LET lower == ToLowerCase(message)
    IN  IF IncludesAny(lower, OrderKeywords) THEN "order"
        ELSE IF IncludesAny(lower, ProductKeywords) THEN "product_inquiry"
        ELSE IF IncludesAny(lower, DeliveryKeywords) THEN "delivery_inquiry"
        ELSE IF IncludesAny(lower, OrderStatusKeywords) THEN "order_status"
        ELSE IF IncludesAny(lower, ComplaintKeywords) THEN "complaint"
        ELSE IF IncludesAny(lower, HumanSupportKeywords) THEN "human_support_request"
        ELSE "general_inquiry"

\* detectIntent: the first list with a keyword in the lowered message.
DetectIntent(message) ==
    LET lower == ToLowerCase(message)
    IN  IF IncludesAny(lower, ProductKeywords) THEN "product_inquiry"
        ELSE IF IncludesAny(lower, OrderKeywords) THEN "order"
        ELSE IF IncludesAny(lower, DeliveryKeywords) THEN "delivery_inquiry"
        ELSE IF IncludesAny(lower, OrderStatusKeywords) THEN "order_status"
        ELSE IF IncludesAny(lower, ComplaintKeywords) THEN "complaint"
        ELSE IF IncludesAny(lower, HumanSupportKeywords) THEN "human_support_request"
        ELSE "general_inquiry"

\* shouldEscalateToHuman's keyword lists.
EscalateRequestKeywords == {"zh:kefu", "zh:zhenren", "zh:rengong"}
EscalateFrustrationKeywords == {"zh:tousu", "zh:buman", "zh:chajin"}
UncertaintyKeywords == {"zh:buqueding", "zh:wufa huida", "zh:lianluo kefu"}

ShouldEscalateIgnoresFlag(userMessage, aiReply, needsHumanSupport) ==
    \/ IncludesAny(userMessage, EscalateRequestKeywords)
    \/ IncludesAny(userMessage, EscalateFrustrationKeywords)
    \/ IncludesAny(aiReply, UncertaintyKeywords)

\* shouldEscalateToHuman.
ShouldEscalateToHuman(userMessage, aiReply, needsHumanSupport) ==
    \/ IncludesAny(userMessage, EscalateRequestKeywords)
    \/ IncludesAny(userMessage, EscalateFrustrationKeywords)
    \/ needsHumanSupport
    \/ IncludesAny(aiReply, UncertaintyKeywords)

CalculateConfidenceKnowledgeLowers(intentName, productsFound, knowledgeFound) ==
    50 + (IF intentName # "general_inquiry" THEN 20 ELSE 0)
       + (IF productsFound > 0 THEN 20 ELSE 0)
       - (IF knowledgeFound THEN 10 ELSE 0)

\* calculateConfidence, in hundredths.
CalculateConfidence(intentName, productsFound, knowledgeFound) ==
    Min(50 + (IF intentName # "general_inquiry" /\ intentName # "error" THEN 20 ELSE 0)
           + (IF productsFound > 0 THEN 20 ELSE 0)
           + (IF knowledgeFound THEN 10 ELSE 0),
        100)

VARIABLES
    message,            \* processMessage: message
    customer,           \* context.customer: stored preference and flag
    aPc,                \* processMessage: the step about to run, or "done"
    preferredLanguage,  \* processMessage: preferredLanguage
    ctxLanguage,        \* context.preferredLanguage
    cleanMessage,       \* processMessage: cleanMessage
    intent,             \* processMessage: intent
    productSearchStatus,
    suggestedProducts,
    productContext,
    knowledgeContext,   \* whether knowledgeContext is a non-empty string
    kbQueries,          \* the texts knowledgeBaseService.buildContext got
    userMessage,        \* the user message sent to the model
    languageStore,      \* the language preference the store holds
    aiResponse          \* what processMessage returned

avars == <<message, customer, aPc, preferredLanguage, ctxLanguage,
           cleanMessage, intent, productSearchStatus, suggestedProducts,
           productContext, knowledgeContext, kbQueries, userMessage,
           languageStore, aiResponse>>

\* The methods of class ConversationManager.
ConversationManagerMethods ==
    {"getOrCreateCustomer", "getOrCreateSession", "saveIncomingMessage",
     "saveOutgoingMessage", "getRecentMessages", "buildContext",
     "updateCustomerState", "escalateToHuman", "endSession",
     "incrementSessionMessageCount", "checkSessionProtection",
     "createSessionProtection", "releaseSessionProtection"}

NoResponse == [kind |-> "pending"]

\* The response of the catch block of processMessage.
ErrorResponse(language) ==
    [kind |-> "value", response |-> ErrorMessage(language), confidence |-> 0,
     intent |-> "error", requiresHuman |-> TRUE, hasMetadata |-> FALSE,
     suggestedProducts |-> {}, productSearchStatus |-> "undefined",
     productsFound |-> 0]

OnExceptionPropagates(step) == IF step = "model" THEN "threw" ELSE "catch"

\* An exception inside processMessage's try block lands in its catch.
OnException(step) == "catch"

\* Lines 20-30: the language, the cleaned message, and whether the stored
\* preference differs.
AiStart ==
    /\ aPc = "start"
    /\ preferredLanguage' = DetectLanguagePreference(message, customer.language_preference)
    /\ cleanMessage' = CleanMessage(message)
    /\ IF customer.language_preference # preferredLanguage'
       THEN aPc' = "updateLanguage" /\ UNCHANGED ctxLanguage
       ELSE aPc' = "detectIntent" /\ ctxLanguage' = preferredLanguage'
    /\ UNCHANGED <<message, customer, intent, productSearchStatus,
                   suggestedProducts, productContext, knowledgeContext,
                   kbQueries, userMessage, languageStore, aiResponse>>

\* Lines 31-38: conversationManager.updateLanguagePreference(...).  A call
\* of a member the object does not have throws a TypeError.
AiUpdateLanguage ==
    /\ aPc = "updateLanguage"
    /\ IF "updateLanguagePreference" \in ConversationManagerMethods
       THEN /\ languageStore' = preferredLanguage
            /\ ctxLanguage' = preferredLanguage
            /\ aPc' = "detectIntent"
       ELSE /\ aPc' = OnException("updateLanguage")
            /\ UNCHANGED <<languageStore, ctxLanguage>>
    /\ UNCHANGED <<message, customer, preferredLanguage, cleanMessage, intent,
                   productSearchStatus, suggestedProducts, productContext,
                   knowledgeContext, kbQueries, userMessage, aiResponse>>

SearchIntentsProductOnly == {"product_inquiry"}

\* Line 56: the intents for which the resolver is called.
SearchIntents == {"product_inquiry", "order"}

\* Lines 43-59: the intent; for a product inquiry or an order the call of
\* searchProducts(cleanMessage) begins.
AiDetectIntent ==
    /\ aPc = "detectIntent"
    /\ intent' = DetectIntent(cleanMessage)
    /\ IF intent' \in SearchIntents
       THEN /\ aPc' = "search"
            /\ sQuery' = cleanMessage
            /\ sLimit' = DefaultLimit
            /\ sPc' = "exact"
            /\ sLog' = <<>>
            /\ sRet' = NotReturned
            /\ usage0' = usage
       ELSE /\ aPc' = "knowledge"
            /\ UNCHANGED <<sQuery, sLimit, sPc, sLog, sRet, usage0>>
    /\ UNCHANGED <<catalog, aliasTable, usage>>
    /\ UNCHANGED <<message, customer, preferredLanguage, ctxLanguage,
                   cleanMessage, productSearchStatus, suggestedProducts,
                   productContext, knowledgeContext, kbQueries, userMessage,
                   languageStore, aiResponse>>

SearchStatusThrowAborts(ret) ==
    IF ret.kind = "throw" THEN "not_attempted"
    ELSE IF ret.value.products # {} THEN "found" ELSE "none_found"

\* Lines 58-85: productSearchStatus after searchProducts returned or threw.
SearchStatus(ret) ==
    IF ret.kind = "throw" THEN "search_failed"
    ELSE IF ret.value.products # {} THEN "found" ELSE "none_found"

\* Lines 63-84: the text appended to the message sent to the model.
ProductContext(status, language) ==
    CASE status = "found" -> ProductListMsg(language)
      [] status = "none_found" -> NoProductsMsg(language)
      [] status = "search_failed" -> SearchFailedMsg(language)
      [] OTHER -> <<>>

AfterSearchThrowAborts(ret) == IF ret.kind = "throw" THEN "catch" ELSE "knowledge"

\* Lines 77-90: the resolver's exception is caught at line 77, so the
\* knowledge retriever is next whether searchProducts returned or threw.
AfterSearch(ret) == "knowledge"

\* Lines 59-85: searchProducts has returned or thrown.
AiSearchDone ==
    /\ aPc = "search"
    /\ sPc = "done"
    /\ suggestedProducts' = IF sRet.kind = "value" THEN sRet.value.products ELSE {}
    /\ productSearchStatus' = SearchStatus(sRet)
    /\ productContext' = ProductContext(SearchStatus(sRet), preferredLanguage)
    /\ aPc' = AfterSearch(sRet)
    /\ UNCHANGED <<message, customer, preferredLanguage, ctxLanguage,
                   cleanMessage, intent, knowledgeContext, kbQueries,
                   userMessage, languageStore, aiResponse>>

\* Line 90: knowledgeBaseService.buildContext(cleanMessage); it returns the
\* empty string when searchKnowledge found nothing or failed.
AiKnowledge ==
    /\ aPc = "knowledge"
    /\ kbQueries' = Append(kbQueries, cleanMessage)
    /\ knowledgeContext' \in BOOLEAN
    /\ aPc' = "model"
    /\ UNCHANGED <<message, customer, preferredLanguage, ctxLanguage,
                   cleanMessage, intent, productSearchStatus,
                   suggestedProducts, productContext, userMessage,
                   languageStore, aiResponse>>

\* Lines 106-147: the model call and the response built from its reply.
AiModelCall ==
    /\ aPc = "model"
    /\ userMessage' = cleanMessage \o productContext
    /\ \/ /\ aPc' = OnException("model")
          /\ UNCHANGED aiResponse
       \/ \E reply \in Replies :
             LET responseText == IF reply = <<>> THEN DefaultResponse(preferredLanguage)
                                 ELSE reply
             IN  /\ aiResponse' =
                       [kind |-> "value",
                        response |-> responseText,
                        confidence |-> CalculateConfidence(intent,
                                          Cardinality(suggestedProducts), knowledgeContext),
                        intent |-> intent,
                        requiresHuman |-> ShouldEscalateToHuman(cleanMessage, responseText,
                                             customer.needs_human_support),
                        hasMetadata |-> TRUE,
                        suggestedProducts |-> suggestedProducts,
                        productSearchStatus |-> productSearchStatus,
                        productsFound |-> Cardinality(suggestedProducts)]
                 /\ aPc' = "done"
    /\ UNCHANGED <<message, customer, preferredLanguage, ctxLanguage,
                   cleanMessage, intent, productSearchStatus,
                   suggestedProducts, productContext, knowledgeContext,
                   kbQueries, languageStore>>

\* Lines 148-169: the catch block.
AiCatch ==
    /\ aPc = "catch"
    /\ aiResponse' = ErrorResponse(ctxLanguage)
    /\ aPc' = "done"
    /\ UNCHANGED <<message, customer, preferredLanguage, ctxLanguage,
                   cleanMessage, intent, productSearchStatus,
                   suggestedProducts, productContext, knowledgeContext,
                   kbQueries, userMessage, languageStore>>

\* Sequences of at most n body words.
RECURSIVE WordsUpTo(_)
WordsUpTo(n) ==
    IF n = 0 THEN {<<>>}
    ELSE WordsUpTo(n - 1) \cup
         {Append(t, w) : t \in {u \in WordsUpTo(n - 1) : Len(u) = n - 1}, w \in BodyWords}

Messages == {m \o b \o t : m \in Markers, b \in WordsUpTo(MaxWords), t \in Tails}

Customers ==
    [language_preference : {NoPreference, "zh", "en"}, needs_human_support : BOOLEAN]

AiLocals ==
    /\ preferredLanguage = "undefined"
    /\ ctxLanguage = "undefined"
    /\ cleanMessage = <<>>
    /\ intent = "undefined"
    /\ productSearchStatus = "not_attempted"
    /\ suggestedProducts = {}
    /\ productContext = <<>>
    /\ knowledgeContext = FALSE
    /\ kbQueries = <<>>
    /\ userMessage = <<>>
    /\ aiResponse = NoResponse

AiIdle ==
    /\ message = <<>>
    /\ customer = [language_preference |-> NoPreference, needs_human_support |-> FALSE]
    /\ languageStore = NoPreference
    /\ aPc = "done"
    /\ AiLocals

\* =====================================================================
\* Part 5: KnowledgeBaseService.searchKnowledge
\* =====================================================================
\* One call on a table of ai_training_data; every awaited call is a step.
\* The cap of the select.
KbLimit == 5

\* The rows of ai_training_data: whether the row is active, whether its
\* question or answer contains the query, and its confidence_score.
KbRows ==
    [k1 |-> [is_active |-> TRUE, matches |-> TRUE, confidence_score |-> 90],
     k2 |-> [is_active |-> FALSE, matches |-> TRUE, confidence_score |-> 80],
     k3 |-> [is_active |-> TRUE, matches |-> FALSE, confidence_score |-> 70],
     k4 |-> [is_active |-> TRUE, matches |-> TRUE, confidence_score |-> 60],
     k5 |-> [is_active |-> TRUE, matches |-> TRUE, confidence_score |-> 50],
     k6 |-> [is_active |-> TRUE, matches |-> TRUE, confidence_score |-> 40],
     k7 |-> [is_active |-> TRUE, matches |-> TRUE, confidence_score |-> 30],
     k8 |-> [is_active |-> TRUE, matches |-> TRUE, confidence_score |-> 20]]

KbIds == DOMAIN KbRows

\* The tables the call is tried on.
KbTables == {{}, {"k1", "k2", "k3"}, KbIds}

VARIABLES kbTable, kbUsage, kbUsage0, kbPc, kbData, kbNext, kbLog, kbRet

kvars == <<kbTable, kbUsage, kbUsage0, kbPc, kbData, kbNext, kbLog, kbRet>>

\* order by confidence_score desc limit n, as a list of ids.
RECURSIVE KbTop(_, _)
KbTop(ids, n) ==
    IF ids = {} \/ n = 0 THEN <<>>
    ELSE LET best == CHOOSE k \in ids :
                        \A j \in ids : KbRows[j].confidence_score
                                          <= KbRows[k].confidence_score
         IN  <<best>> \o KbTop(ids \ {best}, n - 1)

\* The select: active rows whose question or answer contains the query,
\* each with the usage_count it has at the time of the select.
KbSelect(table, counts) ==
    LET ids == KbTop({k \in table : KbRows[k].is_active /\ KbRows[k].matches},
                     KbLimit)
    IN  [i \in DOMAIN ids |-> [id |-> ids[i], usage_count |-> counts[ids[i]]]]

KbReturn(list) == [kind |-> "value", value |-> list]

\* The call returns the empty list.
KbFail(call, o) ==
    /\ kbLog' = Append(kbLog, [call |-> call, outcome |-> o])
    /\ kbRet' = KbReturn(<<>>)
    /\ kbPc' = "done"

\* openai.embeddings.create: it answers or throws.
KbEmbed ==
    /\ kbPc = "embed"
    /\ \E o \in {"ok", "throw"} :
          IF o = "ok"
          THEN /\ kbLog' = Append(kbLog, [call |-> "embed", outcome |-> o])
               /\ kbPc' = "query"
               /\ UNCHANGED kbRet
          ELSE KbFail("embed", o)
    /\ UNCHANGED <<kbTable, kbUsage, kbUsage0, kbData, kbNext>>

\* The select: an error or an exception gives the empty list.
KbQuery ==
    /\ kbPc = "query"
    /\ \E o \in Outcomes :
          IF o = "ok"
          THEN /\ kbLog' = Append(kbLog, [call |-> "query", outcome |-> o])
               /\ kbData' = KbSelect(kbTable, kbUsage)
               /\ kbNext' = 1
               /\ IF kbData' = <<>>
                  THEN kbRet' = KbReturn(<<>>) /\ kbPc' = "done"
                  ELSE kbPc' = "update" /\ UNCHANGED kbRet
          ELSE KbFail("query", o) /\ UNCHANGED <<kbData, kbNext>>
    /\ UNCHANGED <<kbTable, kbUsage, kbUsage0>>

\* What the call returns once the last update has settled: the result of
\* an update is not looked at; an exception is caught.
KbAfterUpdate(o, list) ==
    IF o = "throw" THEN KbReturn(<<>>) ELSE KbReturn(list)

\* The update of one returned entry: usage_count as selected, plus one.
KbUpdate ==
    /\ kbPc = "update"
    /\ \E o \in Outcomes :
          LET entry == kbData[kbNext]
          IN  /\ kbLog' = Append(kbLog, [call |-> "update", outcome |-> o])
              /\ kbUsage' = IF o = "ok"
                            THEN [kbUsage EXCEPT ![entry.id] = entry.usage_count + 1]
                            ELSE kbUsage
              /\ IF o = "throw" \/ kbNext = Len(kbData)
                 THEN /\ kbRet' = KbAfterUpdate(o, kbData)
                      /\ kbPc' = "done"
                      /\ UNCHANGED kbNext
                 ELSE /\ kbNext' = kbNext + 1
                      /\ UNCHANGED <<kbRet, kbPc>>
    /\ UNCHANGED <<kbTable, kbUsage0, kbData>>

\* No call of searchKnowledge is running.
KbIdle ==
    /\ kbTable = {}
    /\ kbUsage = [k \in KbIds |-> 0]
    /\ kbUsage0 = kbUsage
    /\ kbPc = "done"
    /\ kbData = <<>>
    /\ kbNext = 0
    /\ kbLog = <<>>
    /\ kbRet = KbReturn(<<>>)

\* =====================================================================
\* Part 6: the message list a turn of handleWebhook sends to the model
\* =====================================================================
\* saveIncomingMessage, buildContext, processMessage and
\* saveOutgoingMessage over the messages rows of one identity.

\* getRecentMessages' default limit and buildConversationHistory's slice.
RecentLimit == 10
HistoryWindow == 10
\* Turns followed.
MaxTurns == 2

VARIABLES
    hStore,     \* the messages rows of the identity, oldest first
    hPc,        \* position in the turn
    hTurns,     \* turns started
    hMessage,   \* the inbound message of the turn
    hRow,       \* id of the row saveIncomingMessage inserted, 0 if none
    hRecent,    \* context.recentMessages
    hSent       \* the messages argument of chat.completions.create

hvars == <<hStore, hPc, hTurns, hMessage, hRow, hRecent, hSent>>

\* The inbound messages and the model's reply.
HistMessages == {<<"Order">>, <<"[EN]", " ", "Order">>}
HistReply == <<"sure">>

\* A messages row.
MessageRow(id, senderType, content) ==
    [id |-> id, sender_type |-> senderType, message_content |-> content]

\* Ten earlier rows of the identity: customer, ai and human-agent messages.
EarlierRows ==
    [i \in 1..10 |->
        MessageRow(i, IF i = 5 THEN "human"
                      ELSE IF i % 2 = 1 THEN "customer" ELSE "ai",
                   IF i % 2 = 1 THEN <<"Order">> ELSE HistReply)]

\* The last n elements of a sequence: order by timestamp descending,
\* limit n, reversed; and slice(-n).
LastN(seq, n) ==
    IF Len(seq) <= n THEN seq ELSE SubSeq(seq, Len(seq) - n + 1, Len(seq))

\* getRecentMessages: the rows of the identity, or [] on a store error.
GetRecentMessages(rows, o) ==
    IF o = "ok" THEN LastN(rows, RecentLimit) ELSE <<>>

\* buildConversationHistory: customer rows become user entries, ai rows
\* assistant entries, other rows are skipped.  `row` records the row an
\* entry was built from; it is not part of what is sent.
RECURSIVE HistoryOf(_)
HistoryOf(rows) ==
    IF rows = <<>> THEN <<>>
    ELSE LET msg == Head(rows)
             rest == HistoryOf(Tail(rows))
         IN  IF msg.sender_type = "customer"
             THEN <<[role |-> "user", content |-> msg.message_content,
                     row |-> msg.id]>> \o rest
             ELSE IF msg.sender_type = "ai"
             THEN <<[role |-> "assistant", content |-> msg.message_content,
                     row |-> msg.id]>> \o rest
             ELSE rest

BuildConversationHistory(recentMessages) ==
    HistoryOf(LastN(recentMessages, HistoryWindow))

\* The messages argument: the system prompt, the history, the user message
\* made of the cleaned inbound message and the product context.
ModelMessages(m, recentMessages, ctx) ==
    <<[role |-> "system", content |-> <<"prompt">>, row |-> 0]>>
    \o BuildConversationHistory(recentMessages)
    \o <<[role |-> "user", content |-> CleanMessage(m) \o ctx,
          row |-> 0]>>

\* A delivery passes the lock and the customer lookup.
HistReceive ==
    /\ hPc = "receive"
    /\ hTurns < MaxTurns
    /\ \E m \in HistMessages : hMessage' = m
    /\ hTurns' = hTurns + 1
    /\ hRow' = 0
    /\ hRecent' = <<>>
    /\ hSent' = <<>>
    /\ hPc' = "save"
    /\ UNCHANGED hStore

\* saveIncomingMessage: inserts the row, or throws when the insert fails.
HistSaveIncoming ==
    /\ hPc = "save"
    /\ \E o \in {"ok", "error"} :
          IF o = "ok"
          THEN /\ hStore' = Append(hStore,
                              MessageRow(Len(hStore) + 1, "customer", hMessage))
               /\ hRow' = Len(hStore) + 1
               /\ hPc' = "context"
          ELSE /\ hPc' = "receive"
               /\ UNCHANGED <<hStore, hRow>>
    /\ UNCHANGED <<hTurns, hMessage, hRecent, hSent>>

\* buildContext: getOrCreateSession (part 4; it may throw), then
\* getRecentMessages.
HistBuildContext ==
    /\ hPc = "context"
    /\ \E o \in {"ok", "error", "throw"} :
          IF o = "throw"
          THEN hPc' = "receive" /\ UNCHANGED hRecent
          ELSE hPc' = "process" /\ hRecent' = GetRecentMessages(hStore, o)
    /\ UNCHANGED <<hStore, hTurns, hMessage, hRow, hSent>>

\* processMessage: reaches chat.completions.create, or fails before it and
\* returns its error response.
HistProcess ==
    /\ hPc = "process"
    /\ \E reached \in BOOLEAN, ctx \in {<<>>, <<"ctx">>} :
          hSent' = IF reached
                   THEN ModelMessages(hMessage, hRecent, ctx)
                   ELSE <<>>
    /\ hPc' = "saveOut"
    /\ UNCHANGED <<hStore, hTurns, hMessage, hRow, hRecent>>

\* saveOutgoingMessage: inserts the reply's row, or throws.
HistSaveOutgoing ==
    /\ hPc = "saveOut"
    /\ \E o \in {"ok", "error"} :
          hStore' = IF o = "ok"
                    THEN Append(hStore, MessageRow(Len(hStore) + 1, "ai", HistReply))
                    ELSE hStore
    /\ hPc' = "receive"
    /\ UNCHANGED <<hTurns, hMessage, hRow, hRecent, hSent>>

\* No turn is being followed.
HistIdle ==
    /\ hStore = <<>>
    /\ hPc = "receive"
    /\ hTurns = MaxTurns
    /\ hMessage = <<>>
    /\ hRow = 0
    /\ hRecent = <<>>
    /\ hSent = <<>>

\* =====================================================================
\* Part 4: the conversation store behind handleWebhook
\* =====================================================================
\* One identity; its rows of customers and conversation_sessions, the
\* number of its rows of messages, and one delivery per handler, their
\* awaited calls interleaved.  Time is in hours.  Every awaited store call is one step;
\* calls that touch neither table (markAsRead, logWebhookEvent,
\* getRecentMessages, the hand-off notice) are folded into the step
\* before them.
TurnHandlers == {"t1", "t2"}
HourStep == 25
MaxHours == 30
SessionWindow == 24

VARIABLES customers, sessions, messages, hours, uniquePhone, tPc,
          tCustomer, tSession, tResponse, tThrown, tOutcome, acks, replies,
          tFlagged   \* needs_human_support was set when the delivery arrived

store == <<customers, sessions, messages>>
tLocals == <<tCustomer, tSession, tResponse, tThrown>>
tvars == <<customers, sessions, messages, hours, uniquePhone, tPc, tCustomer, tSession, tResponse, tThrown, tOutcome,
           acks, replies, tFlagged>>

\* The gateway variables other than the lock row.
gRest == <<now, pc, data, lockNow, reqHuman, thrown, did, outcome, chk,
           lastCreate, releasedSince, stale>>

\* The row getOrCreateCustomer inserts.
NewCustomer(t) ==
    [conversation_state |-> "greeting", needs_human_support |-> FALSE,
     language_preference |-> NoPreference, last_active |-> t]

\* A row of customers that was there before the first delivery, with a
\* language preference stored in its metadata.
SeededCustomer ==
    [conversation_state |-> "greeting", needs_human_support |-> FALSE,
     language_preference |-> "zh", last_active |-> 0]

\* The row getOrCreateSession inserts.
NewSession(t) ==
    [resolution_status |-> "ongoing", session_start |-> t, session_end |-> -1,
     is_human_mode |-> FALSE, total_messages |-> 0, ai_messages |-> 0,
     human_messages |-> 0]

NoCustomer == [id |-> 0, needs_human_support |-> FALSE,
               language_preference |-> NoPreference]
NoSession == [id |-> 0, total_messages |-> 0, ai_messages |-> 0,
              human_messages |-> 0]
NoTurnResponse == [intent |-> "undefined", requiresHuman |-> FALSE]

\* select ... where resolution_status = 'ongoing'
OngoingIds(ss) == {i \in 1..Len(ss) : ss[i].resolution_status = "ongoing"}

\* ... and session_start >= now - 24 h
RecentOngoingIds(ss, t) ==
    {i \in OngoingIds(ss) : ss[i].session_start >= t - SessionWindow}

\* order by session_start desc limit 1: the rows that can come first.
Latest(ss, ids) ==
    {i \in ids : \A j \in ids : ss[j].session_start <= ss[i].session_start}

\* updateCustomerState's update, on every row of the identity; the handler
\* always passes the flag.
UpdateCustomerState(cs, state, needsHumanSupport) ==
    [i \in 1..Len(cs) |->
        [cs[i] EXCEPT !.conversation_state = state,
                      !.needs_human_support = needsHumanSupport]]

\* escalateToHuman's update of customers.
EscalateCustomers(cs) == UpdateCustomerState(cs, "awaiting_human", TRUE)

\* escalateToHuman's update of conversation_sessions.
EscalateSessions(ss) ==
    [i \in 1..Len(ss) |->
        IF ss[i].resolution_status = "ongoing"
        THEN [ss[i] EXCEPT !.resolution_status = "escalated", !.is_human_mode = TRUE]
        ELSE ss[i]]

\* endSession's update.
EndSessions(ss, status, t) ==
    [i \in 1..Len(ss) |->
        IF ss[i].resolution_status = "ongoing"
        THEN [ss[i] EXCEPT !.resolution_status = status, !.session_end = t]
        ELSE ss[i]]

\* incrementSessionMessageCount's update: the counters it READ, plus one,
\* written to the row with the id it read.
Increment(row, read, senderType) ==
    [row EXCEPT !.total_messages = read.total_messages + 1,
                !.human_messages = IF senderType = "customer"
                                   THEN read.human_messages + 1 ELSE @,
                !.ai_messages = IF senderType = "ai"
                                THEN read.ai_messages + 1 ELSE @]

\* The messages a turn is about, and the model's reply.
TurnMessages == {<<"Order">>, <<"zh:kefu">>}
TurnReply == <<"sure">>

\* The intent and the escalation decision of processMessage's fixed error
\* response.
TurnError ==
    [intent |-> ErrorResponse("zh").intent,
     requiresHuman |-> ErrorResponse("zh").requiresHuman]

\* What processMessage returns for a message and the customer row the
\* handler read: the fixed error response when the detected language is
\* not the stored one (the call of updateLanguagePreference throws), else
\* the intent and the escalation decision.
TurnResponse(m, c) ==
    IF DetectLanguagePreference(m, c.language_preference) # c.language_preference
          /\ "updateLanguagePreference" \notin ConversationManagerMethods
    THEN TurnError
    ELSE [intent |-> DetectIntent(CleanMessage(m)),
          requiresHuman |-> ShouldEscalateToHuman(CleanMessage(m), TurnReply,
                                                  c.needs_human_support)]

TGoto(h, to) == tPc' = [tPc EXCEPT ![h] = to]

\* A store call's failure that the code turns into a throw.
TThrow(h, why) ==
    /\ tThrown' = [tThrown EXCEPT ![h] = why]
    /\ TGoto(h, "finally")

AcknowledgeLate(n) == n

\* res.sendStatus(200): one more response on this delivery.
Acknowledge(n) == n + 1

\* Line 35: a delivery arrives and is acknowledged.
TAck(h) ==
    /\ tPc[h] = "idle"
    /\ acks' = [acks EXCEPT ![h] = Acknowledge(@)]
    /\ tFlagged' = [tFlagged EXCEPT ![h] =
                       \E i \in 1..Len(customers) : customers[i].needs_human_support]
    /\ TGoto(h, "parse")
    /\ UNCHANGED <<store, hours, uniquePhone, tLocals, tOutcome, replies,
                   lock, gRest>>

\* Lines 38-50: the payload is parsed; without a message the handler
\* returns.
TParse(h) ==
    /\ tPc[h] = "parse"
    /\ \E hasMessage \in BOOLEAN :
          IF hasMessage
          THEN TGoto(h, "check") /\ UNCHANGED tOutcome
          ELSE TGoto(h, "done") /\ tOutcome' = [tOutcome EXCEPT ![h] = "nomsg"]
    /\ UNCHANGED <<store, hours, uniquePhone, tLocals, acks, tFlagged,
                   replies, lock, gRest>>

\* Lines 53-57: checkSessionProtection.
TCheck(h) ==
    /\ tPc[h] = "check"
    /\ LET d == SelectLocked(lock)
           isProtected == d.found /\ ~LockExpired(d, now)
       IN  /\ lock' = IF d.found /\ LockExpired(d, now) THEN ClearLock(lock) ELSE lock
           /\ TGoto(h, AfterCheck(isProtected))
           /\ tOutcome' = [tOutcome EXCEPT ![h] = IF isProtected THEN "dropped" ELSE @]
    /\ UNCHANGED <<store, hours, uniquePhone, tLocals, acks, tFlagged,
                   replies, gRest>>

\* Lines 60-68: createSessionProtection, then markAsRead.
TCreate(h) ==
    /\ tPc[h] = "create"
    /\ \E ok \in BOOLEAN : lock' = IF ok THEN UpsertLock(now) ELSE lock
    /\ TGoto(h, "custSelect")
    /\ UNCHANGED <<store, hours, uniquePhone, tLocals,
                   tOutcome, acks, tFlagged, replies, gRest>>

\* getOrCreateCustomer, the select with .single(): a row only when exactly
\* one matches.
TCustSelect(h) ==
    /\ tPc[h] = "custSelect"
    /\ IF Len(customers) = 1
       THEN /\ tCustomer' = [tCustomer EXCEPT ![h] =
                   [id |-> 1,
                    needs_human_support |-> customers[1].needs_human_support,
                    language_preference |-> customers[1].language_preference]]
            /\ TGoto(h, "custTouch")
       ELSE /\ TGoto(h, "custInsert")
            /\ UNCHANGED tCustomer
    /\ UNCHANGED <<store, hours, uniquePhone, tSession,
                   tResponse, tThrown, tOutcome, acks, tFlagged, replies, lock, gRest>>

\* getOrCreateCustomer on a hit: last_active of the row read; the row is
\* returned as it was read.
TCustTouch(h) ==
    /\ tPc[h] = "custTouch"
    /\ customers' = [customers EXCEPT ![tCustomer[h].id].last_active = hours]
    /\ TGoto(h, "inInsert")
    /\ UNCHANGED <<sessions, messages, hours, uniquePhone,
                   tLocals, tOutcome, acks, tFlagged, replies, lock, gRest>>

\* getOrCreateCustomer on a miss: the insert.  It is rejected when the
\* table allows one row per phone_number and one is there, and it can fail.
TCustInsert(h) ==
    /\ tPc[h] = "custInsert"
    /\ \E ok \in BOOLEAN :
          IF uniquePhone /\ Len(customers) > 0
          THEN TThrow(h, "conflict") /\ UNCHANGED <<customers, tCustomer>>
          ELSE IF ~ok
          THEN TThrow(h, "store") /\ UNCHANGED <<customers, tCustomer>>
          ELSE /\ customers' = Append(customers, NewCustomer(hours))
               /\ tCustomer' = [tCustomer EXCEPT ![h] =
                      [id |-> Len(customers) + 1, needs_human_support |-> FALSE,
                       language_preference |-> NoPreference]]
               /\ TGoto(h, "inInsert")
               /\ UNCHANGED tThrown
    /\ UNCHANGED <<sessions, messages, hours, uniquePhone,
                   tSession, tResponse, tOutcome, acks, tFlagged, replies, lock, gRest>>

\* The insert of saveIncomingMessage / saveOutgoingMessage.
MessageInsert(h, at, to) ==
    /\ tPc[h] = at
    /\ \E ok \in BOOLEAN :
          IF ok
          THEN messages' = messages + 1 /\ TGoto(h, to) /\ UNCHANGED tThrown
          ELSE TThrow(h, "store") /\ UNCHANGED messages
    /\ UNCHANGED <<customers, sessions, hours, uniquePhone,
                   tCustomer, tSession, tResponse, tOutcome, acks, tFlagged, replies,
                   lock, gRest>>

\* incrementSessionMessageCount, the select: the latest ongoing session,
\* of any age; without one the call returns.
IncrementSelect(h, at, to, after) ==
    /\ tPc[h] = at
    /\ IF OngoingIds(sessions) = {}
       THEN TGoto(h, after) /\ UNCHANGED tSession
       ELSE /\ \E i \in Latest(sessions, OngoingIds(sessions)) :
                  tSession' = [tSession EXCEPT ![h] =
                      [id |-> i, total_messages |-> sessions[i].total_messages,
                       ai_messages |-> sessions[i].ai_messages,
                       human_messages |-> sessions[i].human_messages]]
            /\ TGoto(h, to)
    /\ UNCHANGED <<store, hours, uniquePhone, tCustomer,
                   tResponse, tThrown, tOutcome, acks, tFlagged, replies, lock, gRest>>

\* incrementSessionMessageCount, the update by id; the call returns.
IncrementUpdate(h, at, to, senderType) ==
    /\ tPc[h] = at
    /\ sessions' = [sessions EXCEPT ![tSession[h].id] =
                       Increment(@, tSession[h], senderType)]
    /\ tSession' = [tSession EXCEPT ![h] = NoSession]
    /\ TGoto(h, to)
    /\ UNCHANGED <<customers, messages, hours, uniquePhone, tCustomer,
                   tResponse, tThrown, tOutcome, acks, tFlagged, replies, lock, gRest>>

TInInsert(h) == MessageInsert(h, "inInsert", "inSelect")
TInSelect(h) == IncrementSelect(h, "inSelect", "inUpdate", "sessSelect")
TInUpdate(h) == IncrementUpdate(h, "inUpdate", "sessSelect", "customer")

\* buildContext: getOrCreateSession's select, then getRecentMessages.
TSessSelect(h) ==
    /\ tPc[h] = "sessSelect"
    /\ TGoto(h, IF RecentOngoingIds(sessions, hours) # {}
                THEN "process" ELSE "sessInsert")
    /\ UNCHANGED <<store, hours, uniquePhone, tLocals,
                   tOutcome, acks, tFlagged, replies, lock, gRest>>

\* getOrCreateSession's insert, then getRecentMessages.
TSessInsert(h) ==
    /\ tPc[h] = "sessInsert"
    /\ \E ok \in BOOLEAN :
          IF ok
          THEN /\ sessions' = Append(sessions, NewSession(hours))
               /\ TGoto(h, "process")
               /\ UNCHANGED tThrown
          ELSE TThrow(h, "store") /\ UNCHANGED sessions
    /\ UNCHANGED <<customers, messages, hours, uniquePhone,
                   tCustomer, tSession, tResponse, tOutcome, acks, tFlagged, replies,
                   lock, gRest>>

\* aiService.processMessage on the customer row read at the start.
TProcess(h) ==
    /\ tPc[h] = "process"
    /\ \E m \in TurnMessages : \E modelThrows \in BOOLEAN :
          tResponse' = [tResponse EXCEPT ![h] =
              IF modelThrows THEN TurnError ELSE TurnResponse(m, tCustomer[h])]
    /\ TGoto(h, "outInsert")
    /\ UNCHANGED <<store, hours, uniquePhone, tCustomer,
                   tSession, tThrown, tOutcome, acks, tFlagged, replies, lock, gRest>>

TOutInsert(h) == MessageInsert(h, "outInsert", "outSelect")
TOutSelect(h) == IncrementSelect(h, "outSelect", "outUpdate", "send")
TOutUpdate(h) == IncrementUpdate(h, "outUpdate", "send", "ai")

\* Line 109: sendTextMessage of the reply.
TSend(h) ==
    /\ tPc[h] = "send"
    /\ replies' = [replies EXCEPT ![h] = @ + 1]
    /\ TGoto(h, IF tResponse[h].requiresHuman THEN "escCustomer" ELSE "update")
    /\ UNCHANGED <<store, hours, uniquePhone, tLocals,
                   tOutcome, acks, tFlagged, lock, gRest>>

\* escalateToHuman, the update of customers.
TEscCustomer(h) ==
    /\ tPc[h] = "escCustomer"
    /\ customers' = EscalateCustomers(customers)
    /\ TGoto(h, "escSession")
    /\ UNCHANGED <<sessions, messages, hours, uniquePhone,
                   tLocals, tOutcome, acks, tFlagged, replies, lock, gRest>>

\* escalateToHuman, the update of conversation_sessions; then the hand-off
\* notice is sent.
TEscSession(h) ==
    /\ tPc[h] = "escSession"
    /\ sessions' = EscalateSessions(sessions)
    /\ TGoto(h, "update")
    /\ UNCHANGED <<customers, messages, hours, uniquePhone,
                   tLocals, tOutcome, acks, tFlagged, replies, lock, gRest>>

\* Lines 126-147: updateCustomerState(phone, intent, requiresHuman), the
\* intent being a non-empty string; then the event is logged.
TUpdate(h) ==
    /\ tPc[h] = "update"
    /\ customers' = UpdateCustomerState(customers, tResponse[h].intent,
                                        tResponse[h].requiresHuman)
    /\ TGoto(h, "finally")
    /\ UNCHANGED <<sessions, messages, hours, uniquePhone,
                   tLocals, tOutcome, acks, tFlagged, replies, lock, gRest>>

\* Lines 148-171: the lock is released; an exception is logged by the
\* outer catch.  The handler returns and its locals are gone.
TRelease(h) ==
    /\ tPc[h] = "finally"
    /\ lock' = ClearLock(lock)
    /\ tOutcome' = [tOutcome EXCEPT ![h] =
                       IF tThrown[h] = "none" THEN "processed" ELSE "failed"]
    /\ tCustomer' = [tCustomer EXCEPT ![h] = NoCustomer]
    /\ tSession' = [tSession EXCEPT ![h] = NoSession]
    /\ tResponse' = [tResponse EXCEPT ![h] = NoTurnResponse]
    /\ tThrown' = [tThrown EXCEPT ![h] = "none"]
    /\ tFlagged' = [tFlagged EXCEPT ![h] = FALSE]
    /\ TGoto(h, "done")
    /\ UNCHANGED <<store, hours, uniquePhone, acks, replies, gRest>>

\* endSession(phone, status), called from outside the handler.  Without
\* an ongoing session it changes nothing.
EndSession ==
    /\ OngoingIds(sessions) # {}
    /\ \E status \in {"resolved", "escalated", "abandoned"} :
          sessions' = EndSessions(sessions, status, hours)
    /\ UNCHANGED <<customers, messages, hours, uniquePhone, tPc,
                   tLocals, tOutcome, acks, tFlagged, replies, lock, gRest>>

\* More than a day passes.  A turn lasts seconds, so the day passes
\* between turns.
HoursPass ==
    /\ \A h \in DOMAIN tPc : tPc[h] \in {"idle", "done"}
    /\ hours + HourStep <= MaxHours
    /\ hours' = hours + HourStep
    /\ UNCHANGED <<store, uniquePhone, tPc, tLocals,
                   tOutcome, acks, tFlagged, replies, lock, gRest>>

\* No delivery is being handled and the store is empty.
TurnIdle ==
    /\ customers = <<>>
    /\ sessions = <<>>
    /\ messages = 0
    /\ hours = 0
    /\ uniquePhone = FALSE
    /\ tPc = [h \in {} |-> "idle"]
    /\ tCustomer = [h \in {} |-> NoCustomer]
    /\ tSession = [h \in {} |-> NoSession]
    /\ tResponse = [h \in {} |-> NoTurnResponse]
    /\ tThrown = [h \in {} |-> "none"]
    /\ tOutcome = [h \in {} |-> "none"]
    /\ acks = [h \in {} |-> 0]
    /\ tFlagged = [h \in {} |-> FALSE]
    /\ replies = [h \in {} |-> 0]

\* The store before the first delivery: no customer row or a seeded one,
\* with or without a unique index on customers.phone_number.
TurnInit ==
    /\ InitWith({})
    /\ SearchIdle
    /\ AiIdle
    /\ KbIdle
    /\ HistIdle
    /\ customers \in {<<>>, <<SeededCustomer>>}
    /\ sessions = <<>>
    /\ messages = 0
    /\ hours = 0
    /\ uniquePhone \in BOOLEAN
    /\ tPc = [h \in TurnHandlers |-> "idle"]
    /\ tCustomer = [h \in TurnHandlers |-> NoCustomer]
    /\ tSession = [h \in TurnHandlers |-> NoSession]
    /\ tResponse = [h \in TurnHandlers |-> NoTurnResponse]
    /\ tThrown = [h \in TurnHandlers |-> "none"]
    /\ tOutcome = [h \in TurnHandlers |-> "none"]
    /\ acks = [h \in TurnHandlers |-> 0]
    /\ tFlagged = [h \in TurnHandlers |-> FALSE]
    /\ replies = [h \in TurnHandlers |-> 0]

TurnNext ==
    \/ \E h \in TurnHandlers : TAck(h) /\ UNCHANGED <<svars, avars, kvars, hvars>>
    \/ \E h \in TurnHandlers : TParse(h) /\ UNCHANGED <<svars, avars, kvars, hvars>>
    \/ \E h \in TurnHandlers : TCheck(h) /\ UNCHANGED <<svars, avars, kvars, hvars>>
    \/ \E h \in TurnHandlers : TCreate(h) /\ UNCHANGED <<svars, avars, kvars, hvars>>
    \/ \E h \in TurnHandlers : TCustSelect(h) /\ UNCHANGED <<svars, avars, kvars, hvars>>
    \/ \E h \in TurnHandlers : TCustTouch(h) /\ UNCHANGED <<svars, avars, kvars, hvars>>
    \/ \E h \in TurnHandlers : TCustInsert(h) /\ UNCHANGED <<svars, avars, kvars, hvars>>
    \/ \E h \in TurnHandlers : TInInsert(h) /\ UNCHANGED <<svars, avars, kvars, hvars>>
    \/ \E h \in TurnHandlers : TInSelect(h) /\ UNCHANGED <<svars, avars, kvars, hvars>>
    \/ \E h \in TurnHandlers : TInUpdate(h) /\ UNCHANGED <<svars, avars, kvars, hvars>>
    \/ \E h \in TurnHandlers : TSessSelect(h) /\ UNCHANGED <<svars, avars, kvars, hvars>>
    \/ \E h \in TurnHandlers : TSessInsert(h) /\ UNCHANGED <<svars, avars, kvars, hvars>>
    \/ \E h \in TurnHandlers : TProcess(h) /\ UNCHANGED <<svars, avars, kvars, hvars>>
    \/ \E h \in TurnHandlers : TOutInsert(h) /\ UNCHANGED <<svars, avars, kvars, hvars>>
    \/ \E h \in TurnHandlers : TOutSelect(h) /\ UNCHANGED <<svars, avars, kvars, hvars>>
    \/ \E h \in TurnHandlers : TOutUpdate(h) /\ UNCHANGED <<svars, avars, kvars, hvars>>
    \/ \E h \in TurnHandlers : TSend(h) /\ UNCHANGED <<svars, avars, kvars, hvars>>
    \/ \E h \in TurnHandlers : TEscCustomer(h) /\ UNCHANGED <<svars, avars, kvars, hvars>>
    \/ \E h \in TurnHandlers : TEscSession(h) /\ UNCHANGED <<svars, avars, kvars, hvars>>
    \/ \E h \in TurnHandlers : TUpdate(h) /\ UNCHANGED <<svars, avars, kvars, hvars>>
    \/ \E h \in TurnHandlers : TRelease(h) /\ UNCHANGED <<svars, avars, kvars, hvars>>
    \/ EndSession /\ UNCHANGED <<svars, avars, kvars, hvars>>
    \/ HoursPass /\ UNCHANGED <<svars, avars, kvars, hvars>>

\* searchKnowledge(query) is called.
KbInit ==
    /\ InitWith({})
    /\ SearchIdle
    /\ AiIdle
    /\ TurnIdle
    /\ HistIdle
    /\ kbTable \in KbTables
    /\ kbUsage \in {[k \in KbIds |-> 0], [k \in KbIds |-> 1]}
    /\ kbUsage0 = kbUsage
    /\ kbPc = "embed"
    /\ kbData = <<>>
    /\ kbNext = 0
    /\ kbLog = <<>>
    /\ kbRet = [kind |-> "pending"]

KbNext ==
    \/ KbEmbed /\ UNCHANGED <<gvars, svars, avars, tvars, hvars>>
    \/ KbQuery /\ UNCHANGED <<gvars, svars, avars, tvars, hvars>>
    \/ KbUpdate /\ UNCHANGED <<gvars, svars, avars, tvars, hvars>>

\* Turns of handleWebhook for an identity with or without earlier messages.
HistInit ==
    /\ InitWith({})
    /\ SearchIdle
    /\ AiIdle
    /\ TurnIdle
    /\ KbIdle
    /\ hStore \in {<<>>, EarlierRows}
    /\ hPc = "receive"
    /\ hTurns = 0
    /\ hMessage = <<>>
    /\ hRow = 0
    /\ hRecent = <<>>
    /\ hSent = <<>>

HistNext ==
    \/ HistReceive /\ UNCHANGED <<gvars, svars, avars, tvars, kvars>>
    \/ HistSaveIncoming /\ UNCHANGED <<gvars, svars, avars, tvars, kvars>>
    \/ HistBuildContext /\ UNCHANGED <<gvars, svars, avars, tvars, kvars>>
    \/ HistProcess /\ UNCHANGED <<gvars, svars, avars, tvars, kvars>>
    \/ HistSaveOutgoing /\ UNCHANGED <<gvars, svars, avars, tvars, kvars>>

\* The catalogs processMessage is tried on.
AiCatalogs == {{"p1"}}

\* processMessage(message, context) is called.
AiInit ==
    /\ InitWith({})
    /\ TurnIdle
    /\ KbIdle
    /\ HistIdle
    /\ catalog \in AiCatalogs
    /\ aliasTable = {}
    /\ usage = [a \in AliasIds |-> 0]
    /\ usage0 = usage
    /\ sQuery = <<>>
    /\ sLimit = DefaultLimit
    /\ sPc = "done"
    /\ sLog = <<>>
    /\ sRet = NotReturned
    /\ message \in Messages
    /\ customer \in Customers
    /\ languageStore = customer.language_preference
    /\ aPc = "start"
    /\ AiLocals

AiNext ==
    \/ AiStart /\ UNCHANGED <<gvars, svars, tvars, kvars, hvars>>
    \/ AiUpdateLanguage /\ UNCHANGED <<gvars, svars, tvars, kvars, hvars>>
    \/ AiDetectIntent /\ UNCHANGED <<gvars, tvars, kvars, hvars>>
    \/ (aPc = "search" /\ SearchExact) /\ UNCHANGED <<gvars, avars, tvars, kvars, hvars>>
    \/ (aPc = "search" /\ SearchAlias) /\ UNCHANGED <<gvars, avars, tvars, kvars, hvars>>
    \/ (aPc = "search" /\ SearchSemantic) /\ UNCHANGED <<gvars, avars, tvars, kvars, hvars>>
    \/ (aPc = "search" /\ SearchFuzzy) /\ UNCHANGED <<gvars, avars, tvars, kvars, hvars>>
    \/ (aPc = "search" /\ SearchSample) /\ UNCHANGED <<gvars, avars, tvars, kvars, hvars>>
    \/ AiSearchDone /\ UNCHANGED <<gvars, svars, tvars, kvars, hvars>>
    \/ AiKnowledge /\ UNCHANGED <<gvars, svars, tvars, kvars, hvars>>
    \/ AiModelCall /\ UNCHANGED <<gvars, svars, tvars, kvars, hvars>>
    \/ AiCatch /\ UNCHANGED <<gvars, svars, tvars, kvars, hvars>>

\* searchProducts(query, limit) is called on some catalog and alias table.
SearchInit ==
    /\ InitWith({})
    /\ AiIdle
    /\ TurnIdle
    /\ KbIdle
    /\ HistIdle
    /\ catalog \in SUBSET ProductIds
    /\ aliasTable \in AliasTables
    /\ usage = [a \in AliasIds |-> 0]
    /\ usage0 = usage
    /\ sQuery \in TextsUpTo(MaxQueryLen)
    /\ sLimit \in 1..MaxLimit
    /\ sPc = "exact"
    /\ sLog = <<>>
    /\ sRet = NotReturned

SearchNext ==
    \/ SearchExact /\ UNCHANGED <<gvars, avars, tvars, kvars, hvars>>
    \/ SearchAlias /\ UNCHANGED <<gvars, avars, tvars, kvars, hvars>>
    \/ SearchSemantic /\ UNCHANGED <<gvars, avars, tvars, kvars, hvars>>
    \/ SearchFuzzy /\ UNCHANGED <<gvars, avars, tvars, kvars, hvars>>
    \/ SearchSample /\ UNCHANGED <<gvars, avars, tvars, kvars, hvars>>

\* ------------------------------------------------------ specifications
vars == <<gvars, svars, avars, tvars, kvars, hvars>>

Init == InitWith(Handlers) /\ SearchIdle /\ AiIdle /\ TurnIdle /\ KbIdle /\ HistIdle

Next ==
    \/ Tick /\ UNCHANGED <<svars, avars, tvars, kvars, hvars>>
    \/ \E h \in DOMAIN pc : Receive(h) /\ UNCHANGED <<svars, avars, tvars, kvars, hvars>>
    \/ \E h \in DOMAIN pc : CheckSelect(h) /\ UNCHANGED <<svars, avars, tvars, kvars, hvars>>
    \/ \E h \in DOMAIN pc : CheckEval(h) /\ UNCHANGED <<svars, avars, tvars, kvars, hvars>>
    \/ \E h \in DOMAIN pc : CheckClear(h) /\ UNCHANGED <<svars, avars, tvars, kvars, hvars>>
    \/ \E h \in DOMAIN pc : Create(h) /\ UNCHANGED <<svars, avars, tvars, kvars, hvars>>
    \/ \E h \in DOMAIN pc : MarkAsRead(h) /\ UNCHANGED <<svars, avars, tvars, kvars, hvars>>
    \/ \E h \in DOMAIN pc : GetCustomer(h) /\ UNCHANGED <<svars, avars, tvars, kvars, hvars>>
    \/ \E h \in DOMAIN pc : SaveIncoming(h) /\ UNCHANGED <<svars, avars, tvars, kvars, hvars>>
    \/ \E h \in DOMAIN pc : BuildContext(h) /\ UNCHANGED <<svars, avars, tvars, kvars, hvars>>
    \/ \E h \in DOMAIN pc : ProcessMessage(h) /\ UNCHANGED <<svars, avars, tvars, kvars, hvars>>
    \/ \E h \in DOMAIN pc : SaveOutgoing(h) /\ UNCHANGED <<svars, avars, tvars, kvars, hvars>>
    \/ \E h \in DOMAIN pc : SendText(h) /\ UNCHANGED <<svars, avars, tvars, kvars, hvars>>
    \/ \E h \in DOMAIN pc : Escalate(h) /\ UNCHANGED <<svars, avars, tvars, kvars, hvars>>
    \/ \E h \in DOMAIN pc : SendEscalation(h) /\ UNCHANGED <<svars, avars, tvars, kvars, hvars>>
    \/ \E h \in DOMAIN pc : UpdateState(h) /\ UNCHANGED <<svars, avars, tvars, kvars, hvars>>
    \/ \E h \in DOMAIN pc : LogProcessed(h) /\ UNCHANGED <<svars, avars, tvars, kvars, hvars>>
    \/ \E h \in DOMAIN pc : Release(h) /\ UNCHANGED <<svars, avars, tvars, kvars, hvars>>
    \/ \E h \in DOMAIN pc : Catch(h) /\ UNCHANGED <<svars, avars, tvars, kvars, hvars>>

Spec == Init /\ [][Next]_vars

\* Every awaited call of a handler eventually settles.
FairSpec == Spec /\ \A h \in Handlers : WF_vars(HandlerStep(h) /\ UNCHANGED <<svars, avars, tvars, kvars, hvars>>)

\* The lock protocol alone, with three concurrent deliveries.
RaceInit == InitWith(RaceHandlers) /\ SearchIdle /\ AiIdle /\ TurnIdle /\ KbIdle /\ HistIdle

RaceNext ==
    \/ Tick /\ UNCHANGED <<svars, avars, tvars, kvars, hvars>>
    \/ \E h \in DOMAIN pc : Receive(h) /\ UNCHANGED <<svars, avars, tvars, kvars, hvars>>
    \/ \E h \in DOMAIN pc : CheckSelect(h) /\ UNCHANGED <<svars, avars, tvars, kvars, hvars>>
    \/ \E h \in DOMAIN pc : CheckEval(h) /\ UNCHANGED <<svars, avars, tvars, kvars, hvars>>
    \/ \E h \in DOMAIN pc : CheckClear(h) /\ UNCHANGED <<svars, avars, tvars, kvars, hvars>>
    \/ \E h \in DOMAIN pc : Create(h) /\ UNCHANGED <<svars, avars, tvars, kvars, hvars>>
    \/ \E h \in DOMAIN pc : Process(h) /\ UNCHANGED <<svars, avars, tvars, kvars, hvars>>
    \/ \E h \in DOMAIN pc : Release(h) /\ UNCHANGED <<svars, avars, tvars, kvars, hvars>>
    \/ \E h \in DOMAIN pc : Catch(h) /\ UNCHANGED <<svars, avars, tvars, kvars, hvars>>

RaceSpec == RaceInit /\ [][RaceNext]_vars

SearchSpec == SearchInit /\ [][SearchNext]_vars

AiSpec == AiInit /\ [][AiNext]_vars

\* Deliveries for one identity, their store calls interleaved.
TurnSpec == TurnInit /\ [][TurnNext]_vars

\* One call of searchKnowledge.
KbSpec == KbInit /\ [][KbNext]_vars

HistSpec == HistInit /\ [][HistNext]_vars

\* ------------------------------------------------------ claims C1 - C4
\* An invocation is inside the processing section: its own
\* createSessionProtection ran and its releaseSessionProtection has not.
InSection(h) == pc[h] \in SectionPcs

\* The invocation's processing has not outlasted the lock it created.
WithinLock(h) == now <= lockNow[h] + LockDuration

\* C1: at no instant are two invocations for the identity both inside the
\* processing section, as long as each finishes within the lock duration.
C1_MutualExclusion ==
    \A g, h \in DOMAIN pc :
        (g # h /\ WithinLock(g) /\ WithinLock(h)) => ~(InSection(g) /\ InSection(h))

\* C2: every invocation that executed createSessionProtection eventually
\* executes releaseSessionProtection, whichever later step fails or throws.
C2_EventuallyReleased ==
    \A h \in Handlers : (pc[h] \in SectionPcs) ~> ("release" \in did[h])

\* A step of the processing section threw and the lock was released.
C2_Witness ==
    \E h \in DOMAIN pc :
        thrown[h] /\ {"create", "release"} \subseteq did[h] /\ outcome[h] = "failed"

\* C3: when checkSessionProtection reports an unexpired lock, the
\* invocation ends at once: it has written no customer, message or session
\* row, has not called the orchestrator, has sent nothing, has neither
\* created nor released a lock, leaves the lock row as it is, and is not
\* routed to the error path.
C3_DropIsSilent ==
    [][\A h \in DOMAIN pc :
          /\ (chk'[h] # chk[h] /\ chk'[h].done /\ chk'[h].res) =>
                /\ pc'[h] = "done"
                /\ outcome'[h] = "dropped"
                /\ lock' = lock
                /\ did'[h] = {}
                /\ ~thrown'[h]
          /\ (outcome[h] = "dropped") =>
                (pc[h] = "done" /\ did[h] = {} /\ ~thrown[h])]_vars

\* A delivery was dropped while another invocation held the lock.
C3_Witness ==
    \E g, h \in DOMAIN pc :
        /\ g # h
        /\ outcome[h] = "dropped"
        /\ InSection(g)
        /\ lock.is_locked

\* C4: after createSessionProtection at time t with duration d and no
\* release, a check before t + d returns true and a check after t + d
\* returns false.
C4_LockedUntilExpiry ==
    \A h \in DOMAIN pc :
        (chk[h].done /\ lastCreate >= 0 /\ ~releasedSince /\ h \notin stale) =>
            /\ (chk[h].at < lastCreate + LockDuration => chk[h].res)
            /\ (chk[h].at > lastCreate + LockDuration => ~chk[h].res)

\* ----------------------------------------------------- claims C5 - C10
\* Every stage invoked so far got an answer from each call it made.
NoCallFailed == \A i \in 1..Len(sLog) : ~sLog[i].failed

Returned == sRet.kind = "value"

\* C5: searchProducts returns a ProductSearchResult, whichever store or
\* client calls fail, by an error or by an exception; it never throws.
C5_NeverThrows == sRet.kind # "throw"

\* C6: the stages run in the order exact, alias, semantic, fuzzy, sample;
\* a stage runs only if every earlier one yielded no products; the result
\* of the first stage that yields products is what is returned, and no
\* stage runs after it.
C6_OrderedShortCircuit ==
    /\ Len(sLog) <= Len(Stages)
    /\ \A i \in 1..Len(sLog) :
          /\ sLog[i].stage = Stages[i]
          /\ \A j \in 1..(i - 1) : sLog[j].result.products = {}
          /\ sLog[i].result.products # {} =>
                /\ i = Len(sLog)
                /\ sPc = "done"
                /\ sRet = [kind |-> "value", value |-> sLog[i].result]
    /\ (sPc # "done") => (Len(sLog) < Len(Stages) /\ sPc = Stages[Len(sLog) + 1])
    /\ (Returned /\ sRet.value.products = {}) => Len(sLog) = Len(Stages)

\* The fuzzy stage's products were returned after three empty stages.
C6_Witness ==
    /\ Returned
    /\ Len(sLog) = 4
    /\ sLog[4].result.products # {}
    /\ sRet.value = sLog[4].result

\* C7: every returned result has its (method, confidence) pair in the
\* table exact 0.95, alias 0.85, semantic 0.8, fuzzy 0.6 or 0.5, sample
\* 0.2 to 0.3, none 0; it holds at most limit products; and it holds no
\* product exactly when it is none with confidence 0.
C7_ResultShape ==
    Returned =>
        LET r == sRet.value
        IN  /\ \/ <<r.searchMethod, r.confidence>> \in
                     {<<"exact", 95>>, <<"alias", 85>>, <<"semantic", 80>>,
                      <<"fuzzy", 60>>, <<"fuzzy", 50>>, <<"none", 0>>}
               \/ r.searchMethod = "sample" /\ r.confidence \in 20..30
            /\ Cardinality(r.products) <= sLimit
            /\ (r.products = {}) <=> (r.searchMethod = "none" /\ r.confidence = 0)

\* The LIKE fallback of the fuzzy stage returned limit rows, cut from more.
C7_Witness ==
    /\ Returned
    /\ sRet.value.searchMethod = "fuzzy"
    /\ sRet.value.confidence = 50
    /\ Cardinality(sRet.value.products) = sLimit
    /\ Cardinality(LikeMatches(catalog, sQuery)) > sLimit

\* The catalog products whose code is the query.
CodeHits == {p \in catalog : ProductRows[p].product_code = sQuery}

MatchedAliases == AliasMatches(aliasTable, sQuery)
AliasedProducts ==
    ProductsByCodes(catalog, {AliasRows[a].product_code : a \in MatchedAliases})

\* C9: for a query that matches no product code or name but matches an
\* active alias of a catalog product, searchProducts returns the aliased
\* product via method alias with confidence 0.85, and each matched alias's
\* usage counter is exactly 1 higher than before the call.  Stated for
\* the calls in which every store call answered.
C9_AliasOnly ==
    (/\ sPc = "done"
     /\ NoCallFailed
     /\ ExactMatches(catalog, sQuery) = {}
     /\ MatchedAliases # {}
     /\ AliasedProducts # {}) =>
        /\ Returned
        /\ sRet.value.searchMethod = "alias"
        /\ sRet.value.confidence = 85
        /\ sRet.value.products # {}
        /\ sRet.value.products \subseteq AliasedProducts
        /\ \A a \in MatchedAliases : usage[a] = usage0[a] + 1

\* C10: if the exact and alias stages yield nothing and the semantic
\* stage fails, the fuzzy stage is still invoked, and its result, when it
\* holds products, is what is returned.
C10_FuzzyAfterSemanticFailure ==
    (/\ Len(sLog) >= 3
     /\ sLog[1].result.products = {}
     /\ sLog[2].result.products = {}
     /\ sLog[3].stage = "semantic"
     /\ sLog[3].failed) =>
        \/ sPc = "fuzzy" /\ Len(sLog) = 3
        \/ /\ Len(sLog) >= 4
           /\ sLog[4].stage = "fuzzy"
           /\ sLog[4].result.products # {} =>
                 sRet = [kind |-> "value", value |-> sLog[4].result]

\* The semantic stage failed and the fuzzy stage's products were returned.
C10_Witness ==
    /\ Len(sLog) = 4
    /\ sLog[3].failed
    /\ sLog[4].result.products # {}
    /\ sRet = [kind |-> "value", value |-> sLog[4].result]

\* ---------------------------------------------------------- claim C11
\* The exact, alias, semantic and fuzzy stages all ran and found nothing.
FourStagesEmpty ==
    /\ Len(sLog) >= 4
    /\ \A i \in 1..4 : sLog[i].result.products = {}

\* C11 as stated: whenever the exact, alias, semantic and fuzzy stages all
\* yield nothing and the catalog is non-empty, searchProducts returns
\* sample rows with a confidence strictly between 0 and 0.5; it returns
\* confidence 0 (method none) only when the catalog is empty.
C11_SampleOriginal ==
    (sPc = "done" /\ Returned) =>
        /\ (FourStagesEmpty /\ catalog # {}) =>
              /\ sRet.value.searchMethod = "sample"
              /\ sRet.value.products # {}
              /\ sRet.value.confidence > 0
              /\ sRet.value.confidence < 50
        /\ (sRet.value.confidence = 0 => catalog = {})

\* C11 amended: whenever the four stages yield nothing, the catalog is
\* non-empty and the sample stage's store query answers, searchProducts
\* returns sample rows of the catalog with a confidence strictly between 0
\* and 0.5; it returns confidence 0 (method none) only when the catalog is
\* empty or the sample stage's store query failed.
C11_Sample ==
    (sPc = "done" /\ Returned) =>
        /\ (FourStagesEmpty /\ catalog # {} /\ ~sLog[5].failed) =>
              /\ sRet.value.searchMethod = "sample"
              /\ sRet.value.products # {}
              /\ sRet.value.products \subseteq catalog
              /\ sRet.value.confidence > 0
              /\ sRet.value.confidence < 50
        /\ (sRet.value.confidence = 0 =>
              /\ sRet.value.searchMethod = "none"
              /\ FourStagesEmpty
              /\ catalog = {} \/ sLog[5].failed)

\* Sample rows were returned after four empty stages.
C11_Witness ==
    /\ sPc = "done"
    /\ Returned
    /\ FourStagesEmpty
    /\ catalog # {}
    /\ ~sLog[5].failed
    /\ sRet.value.searchMethod = "sample"

\* ================================================== claims C12 - C20
IntentNames ==
    {"product_inquiry", "order", "delivery_inquiry", "order_status",
     "complaint", "human_support_request", "general_inquiry"}

\* processMessage returned the response of its try block.
NonError == aPc = "done" /\ aiResponse.kind = "value" /\ aiResponse.intent # "error"

\* C12: processMessage never propagates an exception: whatever collaborator
\* fails, it ends by returning a well-formed response; when an exception
\* reached its catch block the response is the fixed apology in the
\* context's language, with confidence 0, intent error and requiresHuman.
C12_NeverPropagates ==
    /\ [](/\ aPc \in {"start", "updateLanguage", "detectIntent", "search",
                      "knowledge", "model", "catch", "done"}
          /\ aPc = "done" =>
                /\ aiResponse.kind = "value"
                /\ aiResponse.response # <<>>
                /\ aiResponse.confidence \in 0..100
                /\ aiResponse.intent \in IntentNames \cup {"error"}
                /\ aiResponse.requiresHuman \in BOOLEAN)
    /\ [][aPc = "catch" =>
             /\ aPc' = "done"
             /\ aiResponse'.response =
                   (IF ctxLanguage = "en" THEN <<"Sorry, a system error occurred">>
                    ELSE <<"zh:xitong cuowu">>)
             /\ aiResponse'.confidence = 0
             /\ aiResponse'.intent = "error"
             /\ aiResponse'.requiresHuman = TRUE]_vars

\* The model call threw after a product search, and the apology was returned.
C12_Witness ==
    /\ aPc = "done"
    /\ aiResponse.kind = "value"
    /\ aiResponse.intent = "error"
    /\ Len(sLog) > 0
    /\ Len(kbQueries) = 1

\* The language detected for the message is not the stored preference.
PreferenceDiffers ==
    DetectLanguagePreference(message, customer.language_preference)
        # customer.language_preference

\* The run reached the model call and the call threw.
ModelCallThrew ==
    aPc = "done" /\ aiResponse.kind = "value" /\ aiResponse.intent = "error"
                 /\ Len(kbQueries) = 1

\* C13: when the detected language differs from the customer's stored
\* preference (a customer without one included), processMessage persists
\* the new preference and goes on through intent, search, knowledge and
\* model call to return the model's reply, not the error response.
\* Stated for the runs in which the model call answers.
C13_PersistsAndContinues ==
    (PreferenceDiffers /\ aPc = "done" /\ ~ModelCallThrew) =>
        /\ languageStore = preferredLanguage
        /\ aiResponse.kind = "value"
        /\ aiResponse.intent # "error"
        /\ Len(kbQueries) = 1

\* C14: for every message that contains a human-support-request keyword or
\* a complaint keyword the orchestrator recognises, in either language,
\* processMessage returns requiresHuman = true, whatever the model replies
\* and whatever else the message holds.
C14_KeywordEscalates ==
    (/\ aPc = "done"
     /\ IncludesAny(ToLowerCase(message),
                    HumanSupportKeywords \cup ComplaintKeywords
                    \cup EscalateRequestKeywords \cup EscalateFrustrationKeywords)) =>
        /\ aiResponse.kind = "value"
        /\ aiResponse.requiresHuman = TRUE

\* The four triggers of step 8, read off the message, the customer and the
\* returned text.
AsksForHuman == IncludesAny(cleanMessage, {"zh:kefu", "zh:zhenren", "zh:rengong"})
Complains == IncludesAny(cleanMessage, {"zh:tousu", "zh:buman", "zh:chajin"})
Flagged == customer.needs_human_support
ReplyHedges ==
    IncludesAny(aiResponse.response, {"zh:buqueding", "zh:wufa huida", "zh:lianluo kefu"})

\* C15: on the non-error path requiresHuman is the OR of four independent
\* triggers: the message holds a human-support keyword, the message holds
\* a complaint keyword, the customer's needs_human_support flag is set, or
\* the reply hedges; true if any one holds, false if none does.
C15_EscalationIsOr ==
    NonError =>
        (aiResponse.requiresHuman <=>
            (AsksForHuman \/ Complains \/ Flagged \/ ReplyHedges))

\* The flag alone made the turn escalate.
C15_Witness ==
    /\ NonError
    /\ Flagged
    /\ ~AsksForHuman /\ ~Complains /\ ~ReplyHedges
    /\ aiResponse.requiresHuman

\* The catalog products whose code ends a message of product-inquiry
\* wording: "do you have <code>".
AskedProducts ==
    {p \in catalog : cleanMessage = <<"do you have", " ">> \o ProductRows[p].product_code}

\* C16: for a message made of product-inquiry wording followed by the code
\* of a catalog product, for a customer with no escalation trigger,
\* processMessage returns intent product_inquiry, the resolver's result
\* for that message has method exact and includes that product, and
\* requiresHuman is false.  Stated for the runs in which the detected
\* language is the stored one, every store call and the model call answer
\* and the reply does not hedge.
C16_ProductInquiryScenario ==
    (/\ aPc = "done"
     /\ AskedProducts # {}
     /\ NoCallFailed
     /\ ~PreferenceDiffers
     /\ ~ModelCallThrew
     /\ ~Flagged /\ ~ReplyHedges) =>
        /\ NonError
        /\ aiResponse.intent = "product_inquiry"
        /\ sRet.kind = "value"
        /\ sRet.value.searchMethod = "exact"
        /\ AskedProducts \subseteq sRet.value.products
        /\ aiResponse.requiresHuman = FALSE

\* The resolver ran and the store call of every stage it reached failed,
\* the alias stage's by an exception that left searchProducts.
StoreThrewEverywhere ==
    /\ sPc = "done"
    /\ Len(sLog) = 2
    /\ sLog[1].failed /\ sLog[2].failed
    /\ sRet.kind = "throw"

\* C17: when the store call under every resolver strategy throws, in a run
\* whose intent is product_inquiry or order, processMessage still returns
\* a non-error response whose productSearchStatus is search_failed; the
\* search-unavailable notice, in the turn's language, is in the text sent
\* to the model and not in the response.  The response is the one of the
\* runs in which the model call answers.
C17_SearchFailedIsReported ==
    (StoreThrewEverywhere /\ aPc \in {"knowledge", "model", "catch", "done"}) =>
        LET notice == IF preferredLanguage = "en" THEN "[CRITICAL: UNAVAILABLE]"
                      ELSE "zh:[wufa shiyong]"
        IN  /\ intent \in {"product_inquiry", "order"}
            /\ productSearchStatus = "search_failed"
            /\ productContext = <<notice>>
            /\ aPc = "catch" => Len(kbQueries) = 1
            /\ (aPc = "done" /\ ~ModelCallThrew) =>
                  /\ NonError
                  /\ aiResponse.hasMetadata
                  /\ aiResponse.productSearchStatus = "search_failed"
                  /\ userMessage = Append(cleanMessage, notice)
                  /\ \A i \in DOMAIN aiResponse.response : aiResponse.response[i] # notice

\* The store threw under the resolver and the model's reply was returned.
C17_Witness ==
    /\ StoreThrewEverywhere
    /\ NonError
    /\ aiResponse.productSearchStatus = "search_failed"

\* C18: on every non-error return productSearchStatus has exactly one
\* value: found iff the resolver was invoked and returned a product,
\* none_found iff it was invoked and returned none, search_failed iff it
\* was invoked and threw, not_attempted iff the intent is neither
\* product_inquiry nor order; productsFound > 0 exactly when found.
C18_StatusIsExact ==
    NonError =>
        LET status == aiResponse.productSearchStatus
            invoked == Len(sLog) > 0
        IN  /\ status \in {"found", "none_found", "search_failed", "not_attempted"}
            /\ status = "found" <=>
                  (invoked /\ sRet.kind = "value" /\ sRet.value.products # {})
            /\ status = "none_found" <=>
                  (invoked /\ sRet.kind = "value" /\ sRet.value.products = {})
            /\ status = "search_failed" <=> (invoked /\ sRet.kind = "throw")
            /\ status = "not_attempted" <=>
                  aiResponse.intent \notin {"product_inquiry", "order"}
            /\ aiResponse.productsFound > 0 <=> status = "found"

\* An order message whose search found nothing was answered.
C18_Witness ==
    /\ NonError
    /\ aiResponse.intent = "order"
    /\ aiResponse.productSearchStatus = "none_found"

\* C19: the knowledge retriever is invoked, with the message text, in every
\* run that gets past the product-search step, whatever the intent, and in
\* particular when the resolver threw.
C19_KnowledgeAlwaysRuns ==
    /\ (intent # "undefined" /\ aPc \in {"model", "catch", "done"}) =>
          kbQueries = <<CleanMessage(message)>>
    /\ (sRet.kind = "throw" /\ aPc \notin {"search", "knowledge"}) =>
          kbQueries = <<CleanMessage(message)>>
    /\ aPc = "knowledge" => kbQueries = <<>>

\* The resolver threw and the knowledge retriever was still called.
C19_Witness ==
    /\ sRet.kind = "throw"
    /\ aPc = "model"
    /\ Len(kbQueries) = 1

\* C20: the response confidence is 0.5, plus 0.2 for an intent that is
\* neither general_inquiry nor error, plus 0.2 if a product was found,
\* plus 0.1 if the knowledge context is non-empty, capped at 1.0: it lies
\* in [0.5, 1.0] on the non-error path and never decreases when one of the
\* three inputs goes from absent to present.
C20_Confidence ==
    /\ NonError =>
          /\ aiResponse.confidence =
                Min(50 + (IF aiResponse.intent \notin {"general_inquiry", "error"}
                          THEN 20 ELSE 0)
                       + (IF aiResponse.productsFound > 0 THEN 20 ELSE 0)
                       + (IF knowledgeContext THEN 10 ELSE 0), 100)
          /\ aiResponse.confidence \in 50..100
    /\ \A i \in IntentNames \cup {"error"} : \A n \in 0..2 : \A k \in BOOLEAN :
          /\ CalculateConfidence(i, n, k) <= CalculateConfidence(i, n + 1, k)
          /\ CalculateConfidence(i, n, FALSE) <= CalculateConfidence(i, n, k)
          /\ \A g \in {"general_inquiry", "error"} :
                CalculateConfidence(g, n, k) <= CalculateConfidence(i, n, k)

\* Intent, product and knowledge all present: the confidence is 1.0.
C20_Witness ==
    /\ NonError
    /\ aiResponse.intent = "product_inquiry"
    /\ aiResponse.productsFound > 0
    /\ knowledgeContext
    /\ aiResponse.confidence = 100

\* C21: every delivery that passed the lock check and finished its
\* processing, whether it completed or a store call threw, has called
\* sendTextMessage to the sender with a reply or the fixed apology.
C21_AlwaysReplies ==
    \A h \in DOMAIN pc :
        (pc[h] = "done" /\ outcome[h] \in {"processed", "failed"})
            => "send" \in did[h]

\* A delivery's handler returns after a turn in which nothing threw.
TurnProcessed(h) ==
    /\ tPc[h] = "finally"
    /\ tPc'[h] = "done"
    /\ tThrown[h] = "none"

\* C22: when a processed turn ends, the customer's conversation_state is
\* awaiting_human if the turn's response had requiresHuman = true, and
\* the intent of the response otherwise.
C22_StateAfterTurn ==
    [][\A h \in DOMAIN tPc :
          TurnProcessed(h) =>
             \A i \in 1..Len(customers) :
                customers[i].conversation_state =
                   IF tResponse[h].requiresHuman
                   THEN "awaiting_human" ELSE tResponse[h].intent]_vars

\* C23: a customer row whose needs_human_support flag is true keeps it
\* true in every step of every interleaving of deliveries.
C23_FlagIsSticky ==
    [][\A i \in 1..Len(customers) :
          customers[i].needs_human_support => customers'[i].needs_human_support]_vars

\* Session i becomes escalated in a step of a delivery's handler.
JustEscalated(i) ==
    /\ sessions[i].resolution_status # "escalated"
    /\ sessions'[i].resolution_status = "escalated"
    /\ tPc' # tPc

\* C24: in a step of a handler that makes a session escalated, the handler
\* is in a turn whose response has requiresHuman = true, and in the state
\* the step leads to a customer row of the identity has the
\* needs_human_support flag set.
C24_EscalationSetsFlag ==
    [][\A i \in 1..Len(sessions) :
          JustEscalated(i) =>
             /\ \E h \in DOMAIN tPc :
                   /\ tPc[h] = "escSession"
                   /\ tPc'[h] # "escSession"
                   /\ tResponse[h].requiresHuman
             /\ \E c \in 1..Len(customers') : customers'[c].needs_human_support]_vars

\* C25: a session that is resolved, escalated or abandoned keeps its
\* status, its end time and its three message counters in every step;
\* so a status changes only from ongoing.
C25_TerminalIsFrozen ==
    [][\A i \in 1..Len(sessions) :
          sessions[i].resolution_status # "ongoing" =>
             /\ sessions'[i].resolution_status = sessions[i].resolution_status
             /\ sessions'[i].session_end = sessions[i].session_end
             /\ sessions'[i].total_messages = sessions[i].total_messages
             /\ sessions'[i].ai_messages = sessions[i].ai_messages
             /\ sessions'[i].human_messages = sessions[i].human_messages]_vars

\* C26: in every reachable state the identity has at most one ongoing
\* session whose session_start lies within the last 24 hours.
C26_OneRecentOngoing ==
    Cardinality(RecentOngoingIds(sessions, hours)) <= 1

\* The call of saveIncomingMessage / saveOutgoingMessage that h is in
\* returns in this step.
SaveDone(h, select, update, after) ==
    /\ tPc[h] \in {select, update}
    /\ tPc'[h] = after

\* The step wrote the counters of a session: total and the sender's
\* counter are one more than before.
RaisedByOne(h, counter) ==
    LET i == tSession[h].id
    IN  /\ sessions'[i].total_messages = sessions[i].total_messages + 1
        /\ sessions'[i][counter] = sessions[i][counter] + 1

\* C27: a saveIncomingMessage that returns has raised a session's
\* total_messages and customer-message counter (human_messages) by one,
\* and a saveOutgoingMessage that returns has raised total_messages and
\* ai_messages by one, the first inbound message of a conversation
\* included.
C27_EveryMessageCounted ==
    [][\A h \in DOMAIN tPc :
          /\ SaveDone(h, "inSelect", "inUpdate", "sessSelect") =>
                (tPc[h] = "inUpdate" /\ RaisedByOne(h, "human_messages"))
          /\ SaveDone(h, "outSelect", "outUpdate", "send") =>
                (tPc[h] = "outUpdate" /\ RaisedByOne(h, "ai_messages"))]_vars

\* C28: in every step of every interleaving, none of a session's three
\* message counters gets smaller.
C28_CountersNeverDecrease ==
    [][\A i \in 1..Len(sessions) :
          /\ sessions'[i].total_messages >= sessions[i].total_messages
          /\ sessions'[i].ai_messages >= sessions[i].ai_messages
          /\ sessions'[i].human_messages >= sessions[i].human_messages]_vars

\* C29: in every state of every interleaving the identity has at most one
\* customer row, no getOrCreateCustomer was refused because the row was
\* already there, and every call that returned has returned that one row;
\* a step changes a customer row's last_active only to a later time.
C29_OneCustomerRow ==
    /\ [](/\ Len(customers) <= 1
          /\ \A h \in DOMAIN tPc :
                /\ tThrown[h] # "conflict"
                /\ tCustomer[h] # NoCustomer => tCustomer[h].id = 1)
    /\ [][\A i \in 1..Len(customers) :
            customers'[i].last_active >= customers[i].last_active]_vars

\* C30: a delivery has sent no response before it arrives and exactly one,
\* the 200 acknowledgement, from then on, whatever the outcome of its
\* processing; every step of a handler that parses, checks the lock or
\* writes to the store or the lock row is taken by a delivery that has
\* been acknowledged, and no such step sends a response.
C30_AckOnceFirst ==
    /\ [](\A h \in DOMAIN tPc : acks[h] = IF tPc[h] = "idle" THEN 0 ELSE 1)
    /\ [][\A h \in DOMAIN tPc :
            (tPc'[h] # tPc[h] /\ tPc[h] # "idle") =>
               (acks[h] = 1 /\ acks'[h] = 1)]_vars

\* One delivery was dropped at the lock and the other was processed; each
\* has been acknowledged once.
C30_Witness ==
    \E h1, h2 \in DOMAIN tPc :
        /\ tPc[h1] = "done" /\ tOutcome[h1] = "dropped" /\ acks[h1] = 1
        /\ tPc[h2] = "done" /\ tOutcome[h2] = "processed" /\ acks[h2] = 1
        /\ replies[h2] = 1

\* The categories in the order the claim fixes, each with its keyword list.
IntentChain ==
    <<[name |-> "product_inquiry", keywords |-> ProductKeywords],
      [name |-> "order", keywords |-> OrderKeywords],
      [name |-> "delivery_inquiry", keywords |-> DeliveryKeywords],
      [name |-> "order_status", keywords |-> OrderStatusKeywords],
      [name |-> "complaint", keywords |-> ComplaintKeywords],
      [name |-> "human_support_request", keywords |-> HumanSupportKeywords]>>

\* The positions of the chain whose rule matches the text.
ChainHits(text) ==
    {k \in DOMAIN IntentChain :
        IncludesAny(ToLowerCase(text), IntentChain[k].keywords)}

\* The first category of the chain that matches, general_inquiry if none.
FirstMatch(text) ==
    LET hits == ChainHits(text)
    IN  IF hits = {} THEN "general_inquiry"
        ELSE IntentChain[CHOOSE k \in hits : \A j \in hits : k <= j].name

\* One keyword of each category, and a word of none.
IntentProbeWords ==
    {"do you have", "Order", "ship", "zh:dingdan", "zh:tousu", "human", "hello"}

IntentProbes ==
    {<<>>} \cup {<<w>> : w \in IntentProbeWords}
           \cup {<<v, w>> : v \in IntentProbeWords, w \in IntentProbeWords}

\* C31: the intent processMessage detects is the first category, in the
\* order product_inquiry, order, delivery_inquiry, order_status, complaint,
\* human_support_request, with a keyword in the message, general_inquiry
\* when no category matches, and one of these seven values; the same for
\* every text of up to two words that each match one category or none.
C31_FirstMatchWins ==
    /\ aPc \in {"search", "knowledge", "model", "done"} /\ intent # "undefined" =>
          /\ intent = FirstMatch(cleanMessage)
          /\ intent \in IntentNames
    /\ aPc = "start" /\ message = <<>> =>
          \A t \in IntentProbes :
             /\ DetectIntent(t) = FirstMatch(t)
             /\ DetectIntent(t) \in IntentNames

\* A message with a product keyword and an order keyword is a product
\* inquiry.
C31_Witness ==
    /\ aPc = "done"
    /\ Includes(ToLowerCase(cleanMessage), "order")
    /\ Includes(ToLowerCase(cleanMessage), "do you have")
    /\ intent = "product_inquiry"

\* C32: a checkSessionProtection that read an expired lock goes on to set
\* is_locked = false and returns false; one that read an unexpired lock
\* returns true and leaves the lock row as it is; no step of a check
\* changes locked_until or turns is_locked on.
C32_CheckFrame ==
    [][\A h \in DOMAIN pc :
          /\ (pc[h] = "checkEval" /\ pc'[h] # "checkEval" /\ data[h].found) =>
                IF data[h].locked_until < now
                THEN pc'[h] = "clear" /\ ~chk'[h].done
                ELSE chk'[h].done /\ chk'[h].res /\ lock' = lock
          /\ (pc[h] = "clear" /\ pc'[h] # "clear") =>
                /\ ~lock'.is_locked
                /\ chk'[h].done /\ ~chk'[h].res
          /\ (pc[h] \in {"check", "checkEval", "clear"} /\ pc'[h] # pc[h]) =>
                /\ lock'.locked_until = lock.locked_until
                /\ lock'.exists = lock.exists
                /\ lock'.is_locked => lock.is_locked]_vars

\* A check found the lock expired, cleared it and returned false.
C32_Witness ==
    \E h \in DOMAIN pc :
        /\ chk[h].done /\ ~chk[h].res
        /\ data[h].found
        /\ data[h].locked_until < chk[h].at
        /\ lock.exists /\ ~lock.is_locked
        /\ pc[h] = "create"

\* The language a marker prefix names, "none" without a marker.
MarkerLanguage(m) ==
    IF Len(m) >= 1 /\ m[1] = "[EN]" THEN "en"
    ELSE IF Len(m) >= 1 /\ m[1] = "[ZH]" THEN "zh"
    ELSE "none"

\* The language a language-request keyword names, "none" without one.
RequestedLanguage(m) ==
    IF Includes(ToLowerCase(m), "english") \/ ToLowerCase(m) = <<"en">> THEN "en"
    ELSE IF IncludesAny(ToLowerCase(m), {"zh:zhongwen", "zh:fanti"})
            \/ ToLowerCase(m) = <<"zh">> THEN "zh"
    ELSE "none"

\* The messages of the orchestrator, and each with a request for Chinese
\* in front or behind.
LanguageProbes ==
    Messages \cup {<<"zh:zhongwen">> \o m : m \in Messages}
             \cup {m \o <<"zh:zhongwen">> : m \in Messages}

\* The precedence of the four sources for message m and stored
\* preference s.
Precedence(m, s) ==
    LET d == DetectLanguagePreference(m, s)
    IN  /\ d \in {"zh", "en"}
        /\ MarkerLanguage(m) # "none" => d = MarkerLanguage(m)
        /\ (MarkerLanguage(m) = "none" /\ RequestedLanguage(m) # "none") =>
              d = RequestedLanguage(m)
        /\ (MarkerLanguage(m) = "none" /\ RequestedLanguage(m) = "none"
              /\ s # NoPreference) => d = s
        /\ (MarkerLanguage(m) = "none" /\ RequestedLanguage(m) = "none"
              /\ s = NoPreference /\ CountOver(m, 1, "ascii") = 0) => d = "zh"

\* C33: the language detectLanguagePreference chooses is the marker's when
\* the message starts with [EN] or [ZH]; else the requested one when the
\* message has a language-request keyword; else the stored preference when
\* there is one; else the heuristic's, which is zh for a message without
\* Latin letters.
C33_LanguagePrecedence ==
    /\ aPc # "start" /\ preferredLanguage # "undefined" =>
          /\ preferredLanguage =
                DetectLanguagePreference(message, customer.language_preference)
          /\ Precedence(message, customer.language_preference)
    /\ aPc = "start" /\ message = <<>> =>
          \A m \in LanguageProbes : \A s \in {NoPreference, "zh", "en"} :
             Precedence(m, s)

\* A [ZH] marker wins over a request for English and a stored en.
C33_Witness ==
    /\ aPc = "done"
    /\ MarkerLanguage(message) = "zh"
    /\ RequestedLanguage(message) = "en"
    /\ customer.language_preference = "en"
    /\ preferredLanguage = "zh"

\* The embedding call or the select failed.
KbLookupFailed ==
    \E i \in 1..Len(kbLog) :
        kbLog[i].call \in {"embed", "query"} /\ kbLog[i].outcome # "ok"

\* The ids of the entries the call returned.
KbReturned == {kbRet.value[i].id : i \in 1..Len(kbRet.value)}

\* C34: searchKnowledge ends by returning a list; the empty list when the
\* embedding call or the select failed; otherwise at most 5 entries, all
\* active, with the usage counter of every returned entry one higher than
\* before the call and every other counter as before.
C34_KnowledgeSearch ==
    /\ kbRet.kind # "throw"
    /\ (kbPc = "done" /\ kbLog # <<>>) =>
          /\ kbRet.kind = "value"
          /\ IF KbLookupFailed
             THEN kbRet.value = <<>>
             ELSE /\ Len(kbRet.value) <= KbLimit
                  /\ \A k \in KbReturned : k \in kbTable /\ KbRows[k].is_active
                  /\ \A k \in KbIds :
                        kbUsage[k] = kbUsage0[k]
                                        + (IF k \in KbReturned THEN 1 ELSE 0)

\* C35: when a handler's releaseSessionProtection sets is_locked = false
\* on a locked row, the row is not one that a different handler, still
\* inside its processing section, created at another time than this
\* handler created its own.
C35_ReleaseOwnLock ==
    [][\A h \in DOMAIN pc :
          (pc[h] = "finally" /\ pc'[h] # "finally" /\ lock.is_locked) =>
             ~\E g \in DOMAIN pc :
                 /\ g # h
                 /\ InSection(g)
                 /\ lockNow[g] = lastCreate
                 /\ lockNow[h] # lastCreate]_vars

\* C36: a handler that is alone with the identity (no other delivery has
\* arrived), is inside the processing section and has not outlasted its
\* lock duration, is covered by the lock: checkSessionProtection would find
\* a locked, unexpired row, also when the store write of
\* createSessionProtection returned an error.
C36_SectionHoldsLock ==
    \A h \in DOMAIN pc :
        (/\ InSection(h)
         /\ WithinLock(h)
         /\ \A g \in DOMAIN pc \ {h} : pc[g] = "idle") =>
            /\ SelectLocked(lock).found
            /\ ~LockExpired(SelectLocked(lock), now)

\* C37: in the message list a turn sends to the language model, the last
\* entry is the user message of the current inbound message, and no entry
\* before it was built from the row that saveIncomingMessage inserted for
\* this inbound message.
C37_InboundOnce ==
    hSent # <<>> =>
        /\ hSent[Len(hSent)].role = "user"
        /\ \A i \in 1..(Len(hSent) - 1) : hSent[i].row # hRow

\* The alias stage ran to its end: its log entry is there and not failed.
AliasStageRan ==
    \E i \in 1..Len(sLog) : sLog[i].stage = "alias" /\ ~sLog[i].failed

\* C38: after an alias stage that ran to its end with matched aliases, every
\* alias that did not match the query has the usage counter it had before
\* the call, and every matched alias has been updated once: its counter is
\* one higher than before.
C38_AliasUsageFrame ==
    (AliasStageRan /\ MatchedAliases # {}) =>
        /\ \A a \in AliasIds \ MatchedAliases : usage[a] = usage0[a]
        /\ \A a \in MatchedAliases : usage[a] = usage0[a] + 1

\* Handler h takes the step that leaves position p.
Leaves(h, p) == tPc[h] = p /\ tPc'[h] # p

\* C39: for a delivery that arrived when the customer's needs_human_support
\* flag was set, the response of processMessage has requiresHuman = true,
\* getOrCreateSession finds no ongoing session to reuse and inserts a fresh
\* one (or the turn throws and is not processed), the reply is followed by
\* escalateToHuman, and escalateToHuman moves a session from ongoing to
\* escalated before the hand-off notice is sent.
C39_FlaggedTurnEscalates ==
    [][\A h \in DOMAIN tPc :
          tFlagged[h] =>
             /\ Leaves(h, "process") => tResponse'[h].requiresHuman
             /\ Leaves(h, "sessSelect") => tPc'[h] \in {"sessInsert", "finally"}
             /\ Leaves(h, "send") => tPc'[h] = "escCustomer"
             /\ Leaves(h, "escSession") =>
                   \E i \in 1..Len(sessions) : JustEscalated(i)]_vars

====
